---- MODULE Spec2Model ----
(***************************************************************************)
(* Model of the todo tool executor (backend/src/mcp_tools.py), of the      *)
(* chat agent and REST routes that drive it, and of the console            *)
(* application's task storage (src/storage.py).                            *)
(*                                                                         *)
(* The task table is a function from task id to row.  Every executor is    *)
(* bound to one user_id and shares the table with the other executors; a   *)
(* tool call is one step, and steps of different executors interleave in   *)
(* any order.  Python strings that the code inspects (titles, descriptions *)
(* and string task ids) are sequences of one-character strings.            *)
(***************************************************************************)
EXTENDS Integers, Sequences, FiniteSets, TLC

VARIABLES
    tasks,      \* the task table: task id -> row
    next_id,    \* the id the table gives to the next inserted row
    now,        \* the clock
    call,       \* the tool call that has just returned, NoCall when idle
    result,     \* what that call returned
    before,     \* the task table as that call found it
    deleted,    \* the ids that delete_task reported as deleted
    pc,         \* where TodoAgent.chat stands: "idle", "send", "loop",
                \* "execute" or "done"
    turn,       \* the arguments of the chat call: history and user_message
    tool_calls_made,    \* chat's list of the names of the tools it called
    response,   \* what the last send_message gave
    context,    \* the contents of the chat session with the language model
    pending,    \* the function call that chat is executing
    executed,   \* the names passed to execute_tool since chat was called
    proposed,   \* the function calls the model has made since then
    returned,   \* what chat has returned or raised
    events,     \* what the REST request in hand has published
    _tasks,     \* InMemoryStorage._tasks: task id -> Task
    _next_id,   \* InMemoryStorage._next_id
    op,         \* the storage method that has just returned, NoOp when idle
    out,        \* what that method returned or raised
    prev,       \* _tasks and _next_id as that method found them
    issued,     \* the ids of the tasks that add has returned
    twin,       \* the task table and next id of a second run of the executors
    twin_result \* what the tool call in hand returned in the second run

\* the variables of TodoAgent.chat
chatvars ==
    <<pc, turn, tool_calls_made, response, context, pending, executed, proposed, returned>>

\* the variables of a direct call of the executor or of a REST request
callvars == <<call, result, before, deleted>>

\* the variables of the console application's InMemoryStorage
storevars == <<_tasks, _next_id, op, out, prev, issued>>

\* the variables of the second run
twinvars == <<twin, twin_result>>

\* the variables of the backend
backendvars ==
    <<tasks, next_id, now, call, result, before, deleted, chatvars, events, twinvars>>

vars ==
    <<tasks, next_id, now, call, result, before, deleted, chatvars, events, storevars,
      twinvars>>

(***************************************************************************)
(* Bounds                                                                  *)
(***************************************************************************)
\* number of rows the table ever allocates
MaxId == 2
\* last clock reading
MaxTime == 1

Users == {"A", "B"}

(***************************************************************************)
(* Python values                                                           *)
(***************************************************************************)
None == [some |-> FALSE]
Some(v) == [some |-> TRUE, v |-> v]

\* a task_id argument is an int or a str
IntArg(n) == [t |-> "int", i |-> n]
StrArg(s) == [t |-> "str", s |-> s]

IsSpace(c) == c \in {" ", "\t", "\n"}

RECURSIVE lstrip(_)
lstrip(s) ==
    IF s = <<>> THEN <<>>
    ELSE IF IsSpace(Head(s)) THEN lstrip(Tail(s)) ELSE s

RECURSIVE rstrip(_)
rstrip(s) ==
    IF s = <<>> THEN <<>>
    ELSE IF IsSpace(s[Len(s)]) THEN rstrip(SubSeq(s, 1, Len(s) - 1)) ELSE s

\* str.strip()
strip(s) == rstrip(lstrip(s))

Digits == <<"0", "1", "2", "3", "4", "5", "6", "7", "8", "9">>

IsDigit(c) == \E i \in 1..10 : Digits[i] = c

DigitVal(c) == (CHOOSE i \in 1..10 : Digits[i] = c) - 1

RECURSIVE DigitsVal(_)
DigitsVal(s) ==
    IF s = <<>> THEN 0
    ELSE 10 * DigitsVal(SubSeq(s, 1, Len(s) - 1)) + DigitVal(s[Len(s)])

AllDigits(s) == s # <<>> /\ \A i \in 1..Len(s) : IsDigit(s[i])

\* ParseInt that takes only strings of digits, as str.isdigit() would
ParseInt_isdigit(s) ==
    IF AllDigits(s) THEN [ok |-> TRUE, v |-> DigitsVal(s)] ELSE [ok |-> FALSE, v |-> 0]

\* int(<str>): surrounding whitespace, an optional sign, decimal digits;
\* anything else is a ValueError
ParseInt(s) ==
    LET b == strip(s)
        signed == b # <<>> /\ Head(b) \in {"+", "-"}
        d == IF signed THEN Tail(b) ELSE b
    IN  IF AllDigits(d)
        THEN [ok |-> TRUE,
              v |-> IF signed /\ Head(b) = "-" THEN 0 - DigitsVal(d) ELSE DigitsVal(d)]
        ELSE [ok |-> FALSE, v |-> 0]

\* int(task_id)
int(x) == IF x.t = "int" THEN [ok |-> TRUE, v |-> x.i] ELSE ParseInt(x.s)

RECURSIVE NatStr(_)
NatStr(n) ==
    IF n < 10 THEN <<Digits[n + 1]>>
    ELSE NatStr(n \div 10) \o <<Digits[(n % 10) + 1]>>

\* str(<int>), also the formatting of an int in an f-string
str(n) == IF n < 0 THEN <<"-">> \o NatStr(0 - n) ELSE NatStr(n)

\* str.lower() on the priority strings in use
lower(s) ==
    CASE s = "HIGH" -> "high"
      [] s = "High" -> "high"
      [] s = "LOW" -> "low"
      [] s = "Medium" -> "medium"
      [] OTHER -> s

\* datetime.fromisoformat(s.replace('Z', '+00:00')) followed by isoformat()
\* on the date strings in use; None stands for ValueError
IsoParse(s) ==
    CASE s = "2026-01-01" -> Some("2026-01-01T00:00:00")
      [] s = "2026-01-01T09:00:00" -> Some("2026-01-01T09:00:00")
      [] s = "2026-01-01T09:00:00Z" -> Some("2026-01-01T09:00:00+00:00")
      [] OTHER -> None

\* arguments[key], or the parameter's default when the key is missing
Arg(arguments, key, default) ==
    IF key \in DOMAIN arguments THEN arguments[key] ELSE default

(***************************************************************************)
(* Return values                                                           *)
(***************************************************************************)
Dict(d) == [kind |-> "dict", payload |-> d]
List(l) == [kind |-> "list", payload |-> l]
Raise(e) == [kind |-> "raise", payload |-> e]

\* f"Task {task_id} not found"
NotFoundMsg(task_id) == <<"Task ">> \o str(task_id) \o <<" not found">>

NotFound(task_id) == Dict([error |-> NotFoundMsg(task_id)])

\* the outcome of a tool call: the table after it and what the caller gets
Outcome(t, n, r) == [tasks |-> t, next_id |-> n, ret |-> r]

(***************************************************************************)
(* Task rows                                                               *)
(***************************************************************************)
\* the column defaults of a new row
TaskDefaults(clock) ==
    [completed |-> FALSE, created_at |-> clock, updated_at |-> clock]

\* Task(title=..., description=..., user_id=..., priority=..., due_date=...,
\*      reminder_at=...)
Task(title, description, user_id, priority, due_date, reminder_at, defaults) ==
    [user_id |-> user_id,
     title |-> title,
     description |-> description,
     completed |-> defaults.completed,
     priority |-> priority,
     due_date |-> due_date,
     reminder_at |-> reminder_at,
     created_at |-> defaults.created_at,
     updated_at |-> defaults.updated_at]

\* session.add(task); flush(); refresh(task): the row gets the next id
insert(T, n, task) == [tasks |-> T @@ (n :> task), next_id |-> n + 1, id |-> n]

\* task_found without the user_id condition
task_found_by_id(T, task_id, user_id) == task_id \in DOMAIN T

\* select(Task).where(Task.id == task_id, Task.user_id == user_id)
\*   .scalar_one_or_none() is not None
task_found(T, task_id, user_id) ==
    task_id \in DOMAIN T /\ T[task_id].user_id = user_id

Remove(T, id) == [i \in DOMAIN T \ {id} |-> T[i]]

(***************************************************************************)
(* The five tools.  Each takes the table T (and the next free id n), the   *)
(* executor's user_id, the call's arguments and the clock reading, and     *)
(* yields the outcome.                                                     *)
(***************************************************************************)
\* priority mapping that compares the string as given
priority_enum_exact(priority) ==
    IF priority = "high" THEN "high"
    ELSE IF priority = "low" THEN "low"
    ELSE "medium"

\* Priority enum member for a priority string
priority_enum(priority) ==
    IF lower(priority) = "high" THEN "high"
    ELSE IF lower(priority) = "low" THEN "low"
    ELSE "medium"

\* optional keys of a payload
OptKeys(due_date, reminder_at) ==
    (IF due_date.some THEN [due_date |-> due_date.v] ELSE <<>>)
    @@ (IF reminder_at.some THEN [reminder_at |-> reminder_at.v] ELSE <<>>)

\* add_task that stores the row under one fixed user
add_task_fixed_user(T, n, user_id, title, description, priority, due_date, reminder_at, clock) ==
    LET task == Task(title, description, "A", priority_enum(priority.s),
                     None, None, TaskDefaults(clock))
        ins == insert(T, n, task)
    IN  Outcome(ins.tasks, ins.next_id,
                Dict([task_id |-> ins.id,
                      status |-> "created",
                      title |-> task.title,
                      priority |-> task.priority]))

\* add_task that maps the priority only after the row is flushed
add_task_insert_first(T, n, user_id, title, description, priority, due_date, reminder_at, clock) ==
    LET task == Task(title, description, user_id,
                     IF priority.t = "str" THEN priority_enum(priority.s) ELSE "medium",
                     None, None, TaskDefaults(clock))
        ins == insert(T, n, task)
    IN  IF priority.t # "str"
        THEN Outcome(ins.tasks, ins.next_id, Raise("AttributeError"))
        ELSE Outcome(ins.tasks, ins.next_id,
                     Dict([task_id |-> ins.id,
                           status |-> "created",
                           title |-> task.title,
                           priority |-> task.priority]))

\* add_task that lets the ValueError of fromisoformat out
add_task_strict_dates(T, n, user_id, title, description, priority, due_date, reminder_at, clock) ==
    LET parsed_due_date ==
            IF due_date.some /\ due_date.v # "" THEN IsoParse(due_date.v) ELSE None
        parsed_reminder_at ==
            IF reminder_at.some /\ reminder_at.v # "" THEN IsoParse(reminder_at.v) ELSE None
    IN  IF \/ (due_date.some /\ due_date.v # "" /\ ~parsed_due_date.some)
           \/ (reminder_at.some /\ reminder_at.v # "" /\ ~parsed_reminder_at.some)
        THEN Outcome(T, n, Raise("ValueError"))
        ELSE IF priority.t # "str"
        THEN Outcome(T, n, Raise("AttributeError"))
        ELSE LET task == Task(title, description, user_id, priority_enum(priority.s),
                              parsed_due_date, parsed_reminder_at, TaskDefaults(clock))
                 ins == insert(T, n, task)
             IN  Outcome(ins.tasks, ins.next_id,
                         Dict([task_id |-> ins.id,
                               status |-> "created",
                               title |-> task.title,
                               priority |-> task.priority]
                              @@ OptKeys(task.due_date, task.reminder_at)))

add_task(T, n, user_id, title, description, priority, due_date, reminder_at, clock) ==
    LET parsed_due_date ==
            IF due_date.some /\ due_date.v # "" THEN IsoParse(due_date.v) ELSE None
        parsed_reminder_at ==
            IF reminder_at.some /\ reminder_at.v # "" THEN IsoParse(reminder_at.v) ELSE None
    IN  IF priority.t # "str"
        THEN Outcome(T, n, Raise("AttributeError"))
        ELSE LET task == Task(title, description, user_id, priority_enum(priority.s),
                              parsed_due_date, parsed_reminder_at, TaskDefaults(clock))
                 ins == insert(T, n, task)
             IN  Outcome(ins.tasks, ins.next_id,
                         Dict([task_id |-> ins.id,
                               status |-> "created",
                               title |-> task.title,
                               priority |-> task.priority]
                              @@ OptKeys(task.due_date, task.reminder_at)))

\* one entry of the list that list_tasks returns
task_data(T, i) ==
    [id |-> i,
     title |-> T[i].title,
     completed |-> T[i].completed,
     description |-> T[i].description,
     priority |-> T[i].priority]
    @@ OptKeys(T[i].due_date, T[i].reminder_at)

\* list_query without the user_id condition
list_query_unscoped(T, user_id, status) ==
    {i \in DOMAIN T :
        /\ (status = "pending" => T[i].completed = FALSE)
        /\ (status = "completed" => T[i].completed = TRUE)}

\* list_query with the two status filters exchanged
list_query_swapped(T, user_id, status) ==
    {i \in DOMAIN T :
        /\ T[i].user_id = user_id
        /\ (status = "pending" => T[i].completed = TRUE)
        /\ (status = "completed" => T[i].completed = FALSE)}

\* the rows the query of list_tasks selects
list_query(T, user_id, status) ==
    {i \in DOMAIN T :
        /\ T[i].user_id = user_id
        /\ (status = "pending" => T[i].completed = FALSE)
        /\ (status = "completed" => T[i].completed = TRUE)}

\* ORDER BY created_at DESC: every arrangement of the rows in which
\* created_at never increases; rows with equal created_at come in any order
order_by_created_at_desc(T, rows) ==
    {s \in [1..Cardinality(rows) -> rows] :
        /\ \A i, j \in 1..Cardinality(rows) : i # j => s[i] # s[j]
        /\ \A i, j \in 1..Cardinality(rows) :
              i < j => T[s[i]].created_at >= T[s[j]].created_at}

\* the lists list_tasks can return
list_tasks(T, user_id, status) ==
    {List([k \in 1..Len(s) |-> task_data(T, s[k])]) :
        s \in order_by_created_at_desc(T, list_query(T, user_id, status))}

\* complete_task that flips the flag instead of setting it
complete_task_toggle(T, n, user_id, task_id_arg, clock) ==
    LET c == int(task_id_arg)
        task_id == c.v
    IN  IF ~c.ok THEN Outcome(T, n, Raise("ValueError"))
        ELSE IF ~task_found(T, task_id, user_id) THEN Outcome(T, n, NotFound(task_id))
        ELSE Outcome([T EXCEPT ![task_id].completed = ~T[task_id].completed,
                               ![task_id].updated_at = clock],
                     n,
                     Dict([task_id |-> task_id,
                           status |-> "completed",
                           title |-> T[task_id].title]))

\* complete_task that leaves updated_at alone
complete_task_keeps_updated_at(T, n, user_id, task_id_arg, clock) ==
    LET c == int(task_id_arg)
        task_id == c.v
    IN  IF ~c.ok THEN Outcome(T, n, Raise("ValueError"))
        ELSE IF ~task_found(T, task_id, user_id) THEN Outcome(T, n, NotFound(task_id))
        ELSE Outcome([T EXCEPT ![task_id].completed = TRUE],
                     n,
                     Dict([task_id |-> task_id,
                           status |-> "completed",
                           title |-> T[task_id].title]))

complete_task(T, n, user_id, task_id_arg, clock) ==
    LET c == int(task_id_arg)
        task_id == c.v
    IN  IF ~c.ok THEN Outcome(T, n, Raise("ValueError"))
        ELSE IF ~task_found(T, task_id, user_id) THEN Outcome(T, n, NotFound(task_id))
        ELSE Outcome([T EXCEPT ![task_id].completed = TRUE,
                               ![task_id].updated_at = clock],
                     n,
                     Dict([task_id |-> task_id,
                           status |-> "completed",
                           title |-> T[task_id].title]))

\* delete_task that reports the deletion and keeps the row
delete_task_keeps_row(T, n, user_id, task_id_arg, clock) ==
    LET c == int(task_id_arg)
        task_id == c.v
    IN  IF ~c.ok THEN Outcome(T, n, Raise("ValueError"))
        ELSE IF ~task_found(T, task_id, user_id) THEN Outcome(T, n, NotFound(task_id))
        ELSE Outcome(T, n,
                     Dict([task_id |-> task_id,
                           status |-> "deleted",
                           title |-> T[task_id].title]))

delete_task(T, n, user_id, task_id_arg, clock) ==
    LET c == int(task_id_arg)
        task_id == c.v
    IN  IF ~c.ok THEN Outcome(T, n, Raise("ValueError"))
        ELSE IF ~task_found(T, task_id, user_id) THEN Outcome(T, n, NotFound(task_id))
        ELSE Outcome(Remove(T, task_id), n,
                     Dict([task_id |-> task_id,
                           status |-> "deleted",
                           title |-> T[task_id].title]))

\* update_task that tests the title with "is not None"
update_task_any_title(T, n, user_id, task_id_arg, title, description, clock) ==
    LET c == int(task_id_arg)
        task_id == c.v
        new_title == IF title.some THEN title.v ELSE T[task_id].title
        new_description ==
            IF description.some THEN description.v ELSE T[task_id].description
    IN  IF ~c.ok THEN Outcome(T, n, Raise("ValueError"))
        ELSE IF ~task_found(T, task_id, user_id) THEN Outcome(T, n, NotFound(task_id))
        ELSE Outcome([T EXCEPT ![task_id].title = new_title,
                               ![task_id].description = new_description,
                               ![task_id].updated_at = clock],
                     n,
                     Dict([task_id |-> task_id,
                           status |-> "updated",
                           title |-> new_title]))

\* update_task that reopens the task it updates
update_task_reopens(T, n, user_id, task_id_arg, title, description, clock) ==
    LET c == int(task_id_arg)
        task_id == c.v
        new_title ==
            IF title.some /\ title.v # <<>> THEN title.v ELSE T[task_id].title
        new_description ==
            IF description.some THEN description.v ELSE T[task_id].description
    IN  IF ~c.ok THEN Outcome(T, n, Raise("ValueError"))
        ELSE IF ~task_found(T, task_id, user_id) THEN Outcome(T, n, NotFound(task_id))
        ELSE Outcome([T EXCEPT ![task_id].title = new_title,
                               ![task_id].description = new_description,
                               ![task_id].completed = FALSE,
                               ![task_id].updated_at = clock],
                     n,
                     Dict([task_id |-> task_id,
                           status |-> "updated",
                           title |-> new_title]))

update_task(T, n, user_id, task_id_arg, title, description, clock) ==
    LET c == int(task_id_arg)
        task_id == c.v
        new_title ==
            IF title.some /\ title.v # <<>> THEN title.v ELSE T[task_id].title
        new_description ==
            IF description.some THEN description.v ELSE T[task_id].description
    IN  IF ~c.ok THEN Outcome(T, n, Raise("ValueError"))
        ELSE IF ~task_found(T, task_id, user_id) THEN Outcome(T, n, NotFound(task_id))
        ELSE Outcome([T EXCEPT ![task_id].title = new_title,
                               ![task_id].description = new_description,
                               ![task_id].updated_at = clock],
                     n,
                     Dict([task_id |-> task_id,
                           status |-> "updated",
                           title |-> new_title]))

\* the unknown-name branch raising instead of returning
UnknownTool_raises(name) == Raise("ValueError")

\* {"error": f"Unknown tool: {name}"}
UnknownTool(name) == Dict([error |-> <<"Unknown tool: ", name>>])

\* f(**arguments): the call binds when every required parameter is given
\* and no undeclared one is
Binds(arguments, required, optional) ==
    /\ required \subseteq DOMAIN arguments
    /\ DOMAIN arguments \subseteq required \cup optional

\* the outcomes of execute_tool(name, arguments)
execute_tool(T, n, user_id, name, arguments, clock) ==
    IF name = "add_task" THEN
        IF Binds(arguments, {"title"},
                 {"description", "priority", "due_date", "reminder_at"})
        THEN {add_task(T, n, user_id, arguments.title,
                       Arg(arguments, "description", <<>>),
                       Arg(arguments, "priority", StrArg("medium")),
                       Arg(arguments, "due_date", None),
                       Arg(arguments, "reminder_at", None), clock)}
        ELSE {Outcome(T, n, Raise("TypeError"))}
    ELSE IF name = "list_tasks" THEN
        IF Binds(arguments, {}, {"status"})
        THEN {Outcome(T, n, r) :
                r \in list_tasks(T, user_id, Arg(arguments, "status", "all"))}
        ELSE {Outcome(T, n, Raise("TypeError"))}
    ELSE IF name = "complete_task" THEN
        IF Binds(arguments, {"task_id"}, {})
        THEN {complete_task(T, n, user_id, arguments.task_id, clock)}
        ELSE {Outcome(T, n, Raise("TypeError"))}
    ELSE IF name = "delete_task" THEN
        IF Binds(arguments, {"task_id"}, {})
        THEN {delete_task(T, n, user_id, arguments.task_id, clock)}
        ELSE {Outcome(T, n, Raise("TypeError"))}
    ELSE IF name = "update_task" THEN
        IF Binds(arguments, {"task_id"}, {"title", "description"})
        THEN {update_task(T, n, user_id, arguments.task_id,
                          Arg(arguments, "title", None),
                          Arg(arguments, "description", None), clock)}
        ELSE {Outcome(T, n, Raise("TypeError"))}
    ELSE {Outcome(T, n, UnknownTool(name))}

(***************************************************************************)
(* Inputs                                                                  *)
(***************************************************************************)
\* what the callers of the state machine pass to the tools
AddArgs ==
    {[title |-> <<"a">>],
     [title |-> <<"b">>, description |-> <<"d">>, priority |-> StrArg("HIGH")]}

ListArgs == {<<>>, [status |-> "pending"], [status |-> "completed"]}

IdArgs == {[task_id |-> IntArg(i)] : i \in 1..MaxId}

\* a language model may pass the id as a string, and the string may be no
\* integer literal
CompleteArgs ==
    IdArgs \cup {[task_id |-> StrArg(str(1))], [task_id |-> StrArg(<<"x">>)]}

\* names a language model may propose that are none of the five tools
OtherNames == {"get_task"}

OtherArgs == {<<>>, [task_id |-> IntArg(1)]}

UpdateArgs ==
    {[task_id |-> IntArg(i), title |-> Some(t)] : i \in 1..MaxId, t \in {<<>>, <<" ">>}}
    \cup {[task_id |-> IntArg(i), description |-> Some(<<"d">>)] : i \in 1..MaxId}

(***************************************************************************)
(* State machine                                                           *)
(***************************************************************************)
NoCall == [tool |-> "none", user |-> "", args |-> <<>>]

NoResult == [kind |-> "none", payload |-> <<>>]

\* no chat call yet
NoTurn == [history |-> <<>>, message |-> ""]

NoResponse == [kind |-> "none", parts |-> <<>>]

\* a protos.Part with no field set
NoPart == [name |-> "", args |-> <<>>, text |-> ""]

NoReturn == [kind |-> "none", text |-> <<>>, tools |-> <<>>]

\* no storage method has been called
NoOp == [method |-> "none", args |-> <<>>]
NoStorage == [tasks |-> <<>>, next_id |-> 0]

Init ==
    /\ tasks = <<>>
    /\ next_id = 1
    /\ now = 0
    /\ call = NoCall
    /\ result = NoResult
    /\ before = <<>>
    /\ deleted = {}
    /\ pc = "idle"
    /\ turn = NoTurn
    /\ tool_calls_made = <<>>
    /\ response = NoResponse
    /\ context = <<>>
    /\ pending = NoPart
    /\ executed = <<>>
    /\ proposed = <<>>
    /\ returned = NoReturn
    /\ events = <<>>
    /\ _tasks = <<>>
    /\ _next_id = 1
    /\ op = NoOp
    /\ out = NoResult
    /\ prev = NoStorage
    /\ issued = {}
    /\ twin = [tasks |-> <<>>, next_id |-> 1]
    /\ twin_result = NoResult

\* the id a return value of delete_task reports as deleted
Reported(name, ret) ==
    IF name = "delete_task" /\ ret.kind = "dict" /\ "status" \in DOMAIN ret.payload
    THEN {ret.payload.task_id}
    ELSE {}

\* the executor bound to user_id runs one tool call on the task table
Run(user_id, name, arguments) ==
    \E o \in execute_tool(tasks, next_id, user_id, name, arguments, now) :
        /\ tasks' = o.tasks
        /\ next_id' = o.next_id
        /\ result' = o.ret
        /\ call' = [tool |-> name, user |-> user_id, args |-> arguments]
        /\ before' = tasks
        /\ deleted' = deleted \cup Reported(name, o.ret)
        /\ UNCHANGED <<storevars, now, chatvars, events>>

\* the executor bound to user_id runs one tool call
Execute(user_id, name, arguments) ==
    /\ Run(user_id, name, arguments)
    /\ UNCHANGED twinvars

\* the caller takes the returned value
Return ==
    /\ call # NoCall
    /\ call' = NoCall
    /\ result' = NoResult
    /\ before' = <<>>
    /\ events' = <<>>
    /\ UNCHANGED <<storevars, twinvars, tasks, next_id, now, deleted, chatvars>>

\* Each tool is called by an idle caller of either user.
AddTask ==
    /\ call = NoCall
    /\ next_id <= MaxId
    /\ \E u \in Users, a \in AddArgs : Execute(u, "add_task", a)

ListTasks ==
    /\ call = NoCall
    /\ \E u \in Users, a \in ListArgs : Execute(u, "list_tasks", a)

CompleteTask ==
    /\ call = NoCall
    /\ \E u \in Users, a \in CompleteArgs : Execute(u, "complete_task", a)

DeleteTask ==
    /\ call = NoCall
    /\ \E u \in Users, a \in IdArgs : Execute(u, "delete_task", a)

UpdateTask ==
    /\ call = NoCall
    /\ \E u \in Users, a \in UpdateArgs : Execute(u, "update_task", a)

\* execute_tool is called with a name that is not a tool's
OtherTool ==
    /\ call = NoCall
    /\ \E u \in Users, name \in OtherNames, a \in OtherArgs : Execute(u, name, a)

\* The tool calls of any number of turns of the two users, in any order,
\* within one reading of the clock.
Next ==
    \/ AddTask
    \/ ListTasks
    \/ CompleteTask
    \/ DeleteTask
    \/ UpdateTask
    \/ OtherTool
    \/ Return

Spec == Init /\ [][Next]_vars

(***************************************************************************)
(* The same tools while time passes, called with the plainest arguments.   *)
(***************************************************************************)
TimedAdd ==
    /\ call = NoCall
    /\ next_id <= MaxId
    /\ \E u \in Users : Execute(u, "add_task", [title |-> <<"a">>])

TimedList ==
    /\ call = NoCall
    /\ \E u \in Users : Execute(u, "list_tasks", <<>>)

TimedComplete ==
    /\ call = NoCall
    /\ \E u \in Users, a \in IdArgs : Execute(u, "complete_task", a)

TimedDelete ==
    /\ call = NoCall
    /\ \E u \in Users, a \in IdArgs : Execute(u, "delete_task", a)

TimedUpdate ==
    /\ call = NoCall
    /\ \E u \in Users, a \in IdArgs : Execute(u, "update_task", a)

\* the clock advances between calls
Tick ==
    /\ call = NoCall
    /\ now < MaxTime
    /\ now' = now + 1
    /\ UNCHANGED <<storevars, twinvars, tasks, next_id, call, result, before, deleted, chatvars, events>>

NextClock ==
    \/ TimedAdd
    \/ TimedList
    \/ TimedComplete
    \/ TimedDelete
    \/ TimedUpdate
    \/ Return
    \/ Tick

SpecClock == Init /\ [][NextClock]_vars

(***************************************************************************)
(* TodoAgent.chat (backend/src/agent.py): one agent, bound to one user,    *)
(* and the language model it talks to.                                     *)
(***************************************************************************)
\* tool calls the language model makes in one turn
MaxToolCalls == 2

\* self.user_id of the agent
AgentUser == "A"

\* a protos.Part that carries text
TextPart(t) == [name |-> "", args |-> <<>>, text |-> t]

\* a protos.Part that carries a function call
FunctionCall(name, args) == [name |-> name, args |-> args, text |-> ""]

\* hasattr(part, 'function_call') and part.function_call.name
IsFunctionCall(part) == part.name # ""

\* a response whose first candidate has these parts
Parts(ps) == [kind |-> "parts", parts |-> ps]

\* send_message raises: no network, an error status of the API
SendFails == [kind |-> "raise", parts |-> <<>>]

\* a response without candidates: the prompt was blocked
NoCandidates == [kind |-> "blocked", parts |-> <<>>]

\* what chat raises
ChatRaises(e) == [kind |-> "raise", text |-> <<e>>, tools |-> <<>>]

\* return response_text, tool_calls_made
ChatReturns(text, tools) == [kind |-> "ok", text |-> text, tools |-> tools]

\* the history in the form the language model takes
gemini_history(history) ==
    [k \in 1..Len(history) |->
        [role |-> IF history[k].role = "user" THEN "user" ELSE "model",
         parts |-> <<TextPart(history[k].content)>>]]

\* the user's message as the chat session records it
UserContent(m) == [role |-> "user", parts |-> <<TextPart(m)>>]

\* the model's answer as the chat session records it
ModelContent(ps) == [role |-> "model", parts |-> ps]

\* Content(parts=[Part(function_response=FunctionResponse(name=tool_name,
\*                     response={"result": result}))])
FunctionResponse(tool_name, ret) ==
    [role |-> "user",
     parts |-> <<[function_response |-> [name |-> tool_name, response |-> [result |-> ret]]]>>]

\* response_text: the texts of the parts, joined
response_text(ps) == SelectSeq([k \in 1..Len(ps) |-> ps[k].text], LAMBDA t : t # "")

\* the function calls among the parts, in order
FunctionCalls(ps) == SelectSeq(ps, IsFunctionCall)

\* what callers pass to chat
Histories ==
    {<<>>,
     <<[role |-> "user", content |-> "h"], [role |-> "assistant", content |-> "r"]>>}

Messages == {"m"}

\* the function calls the language model makes
CallParts ==
    {FunctionCall("add_task", [title |-> <<"a">>]),
     FunctionCall("add_task", [title |-> <<>>]),
     FunctionCall("list_tasks", <<>>),
     FunctionCall("complete_task", [task_id |-> IntArg(1)]),
     FunctionCall("complete_task", [task_id |-> StrArg(<<"x">>)]),
     FunctionCall("get_task", <<>>)}

\* what send_message can give: one function call, text, no part at all,
\* two function calls at once, text followed by a function call, or a failure
Responses ==
    {Parts(<<c>>) : c \in CallParts}
    \cup {Parts(<<TextPart("ok")>>),
          Parts(<<>>),
          Parts(<<FunctionCall("add_task", [title |-> <<"a">>]),
                  FunctionCall("list_tasks", <<>>)>>),
          Parts(<<TextPart("ok"), FunctionCall("list_tasks", <<>>)>>),
          SendFails,
          NoCandidates}

\* chat with the list of tool names kept on the agent instead of made anew
ChatStart_keeps_log ==
    /\ pc = "idle"
    /\ \E history \in Histories, user_message \in Messages :
        /\ turn' = [history |-> history, message |-> user_message]
        /\ context' = Append(gemini_history(history), UserContent(user_message))
    /\ tool_calls_made' = tool_calls_made
    /\ executed' = <<>>
    /\ proposed' = <<>>
    /\ pc' = "send"
    /\ UNCHANGED <<storevars, twinvars, tasks, next_id, now, callvars, events, response, pending, returned>>

\* lines 163-175: chat is called
ChatStart ==
    /\ pc = "idle"
    /\ \E history \in Histories, user_message \in Messages :
        /\ turn' = [history |-> history, message |-> user_message]
        /\ context' = Append(gemini_history(history), UserContent(user_message))
    /\ tool_calls_made' = <<>>
    /\ executed' = <<>>
    /\ proposed' = <<>>
    /\ pc' = "send"
    /\ UNCHANGED <<storevars, twinvars, tasks, next_id, now, callvars, events, response, pending, returned>>

\* send_message gives r
Receive(r) ==
    /\ response' = r
    /\ IF r.kind = "raise"
       THEN /\ returned' = ChatRaises("upstream")
            /\ pc' = "done"
            /\ UNCHANGED <<context, proposed>>
       ELSE /\ context' = Append(context, ModelContent(r.parts))
            /\ proposed' = proposed \o FunctionCalls(r.parts)
            /\ pc' = "loop"
            /\ UNCHANGED returned
    /\ UNCHANGED <<storevars, twinvars, tasks, next_id, now, callvars, events, turn, tool_calls_made,
                   pending, executed>>

\* lines 178 and 199: the language model answers what chat has sent
SendMessage ==
    /\ pc = "send"
    /\ \E r \in Responses :
        /\ FunctionCalls(r.parts) # <<>> => Len(tool_calls_made) < MaxToolCalls
        /\ (\E k \in 1..Len(r.parts) : r.parts[k].name = "add_task") => next_id <= MaxId
        /\ Receive(r)

\* lines 181-193 and 211-221: the head of the loop looks at the first part
ChatLoop ==
    /\ pc = "loop"
    /\ IF response.kind = "blocked"
       THEN /\ returned' = ChatRaises("IndexError")
            /\ pc' = "done"
            /\ UNCHANGED <<tool_calls_made, pending>>
       ELSE IF response.parts # <<>> /\ IsFunctionCall(response.parts[1])
       THEN /\ tool_calls_made' = Append(tool_calls_made, response.parts[1].name)
            /\ pending' = response.parts[1]
            /\ pc' = "execute"
            /\ UNCHANGED returned
       ELSE /\ returned' = ChatReturns(response_text(response.parts), tool_calls_made)
            /\ pc' = "done"
            /\ UNCHANGED <<tool_calls_made, pending>>
    /\ UNCHANGED <<storevars, twinvars, tasks, next_id, now, callvars, events, turn, response, context,
                   executed, proposed>>

\* lines 196-210: the tool runs and its result is made ready for the model
ChatExecute ==
    /\ pc = "execute"
    /\ \E o \in execute_tool(tasks, next_id, AgentUser, pending.name, pending.args, now) :
        /\ tasks' = o.tasks
        /\ next_id' = o.next_id
        /\ executed' = Append(executed, pending.name)
        /\ IF o.ret.kind = "raise"
           THEN /\ returned' = ChatRaises(o.ret.payload)
                /\ pc' = "done"
                /\ UNCHANGED context
           ELSE /\ context' = Append(context, FunctionResponse(pending.name, o.ret))
                /\ pc' = "send"
                /\ UNCHANGED returned
    /\ UNCHANGED <<storevars, twinvars, now, callvars, events, turn, tool_calls_made, response, pending, proposed>>

\* the caller of chat takes what it returned or raised; the values of the
\* variables of the finished call stay behind until the next call
ChatReturn ==
    /\ pc = "done"
    /\ pc' = "idle"
    /\ returned' = NoReturn
    /\ UNCHANGED <<storevars, twinvars, tasks, next_id, now, callvars, events, turn, tool_calls_made,
                   response, context, pending, executed, proposed>>

\* chat turns of one user, one after the other
NextChat ==
    \/ ChatStart
    \/ SendMessage
    \/ ChatLoop
    \/ ChatExecute
    \/ ChatReturn

SpecChat == Init /\ [][NextChat]_vars

(***************************************************************************)
(* A turn in which the language model answers every message with another   *)
(* function call.                                                          *)
(***************************************************************************)
\* function calls the persistent model makes
MaxProposals == 11

LoopResponses ==
    {Parts(<<FunctionCall(name, <<>>)>>) : name \in {"list_tasks", "get_task"}}

KeepProposing ==
    /\ pc = "send"
    /\ Len(tool_calls_made) < MaxProposals
    /\ \E r \in LoopResponses : Receive(r)

NextLoop ==
    \/ ChatStart
    \/ KeepProposing
    \/ ChatLoop
    \/ ChatExecute

SpecLoop == Init /\ [][NextLoop]_vars

(***************************************************************************)
(* The REST routes over the same table (backend/src/routes/tasks.py).  The *)
(* crud functions they call are outside the sources at hand and follow the *)
(* documented behaviour of the endpoints.                                  *)
(***************************************************************************)
\* crud.get_task(session, task_id, user_id=user_id) is not None
crud_get_task(T, task_id, user_id) ==
    task_id \in DOMAIN T /\ T[task_id].user_id = user_id

\* crud.create_task(session, task_in, user_id=user_id)
crud_create_task(T, n, task_in, user_id, clock) ==
    insert(T, n, Task(task_in.title, <<>>, user_id, "medium", None, None,
                      TaskDefaults(clock)))

\* crud.update_task(session, task_id, task_in, user_id=user_id), for a task
\* that crud.get_task finds
crud_update_task(T, task_id, task_in, clock) ==
    [T EXCEPT ![task_id].title = IF task_in.title.some THEN task_in.title.v ELSE @,
              ![task_id].updated_at = clock]

\* crud.delete_task(session, task_id, user_id=user_id): the table after it
\* and whether a row was deleted
crud_delete_task(T, task_id, user_id) ==
    IF crud_get_task(T, task_id, user_id)
    THEN [tasks |-> Remove(T, task_id), success |-> TRUE]
    ELSE [tasks |-> T, success |-> FALSE]

\* crud.toggle_task_complete(session, task_id, user_id=user_id), for a task
\* that crud.get_task finds
crud_toggle_task_complete(T, task_id, clock) ==
    [T EXCEPT ![task_id].completed = ~@, ![task_id].updated_at = clock]

\* what event_publisher is asked to publish
Event(type, task_id, user_id, title) ==
    [type |-> type, task_id |-> task_id, user_id |-> user_id, title |-> title]

\* the response of a route, by its status code
Http(status) == [kind |-> "http", payload |-> [status |-> status]]

\* the outcome of a request: the table, the response and the events
Handled(t, n, r, e) == [tasks |-> t, next_id |-> n, ret |-> r, events |-> e]

\* POST /api/{user_id}/tasks
rest_create_task(T, n, user_id, task_in, clock) ==
    LET ins == crud_create_task(T, n, task_in, user_id, clock)
    IN  Handled(ins.tasks, ins.next_id, Http(201),
                <<Event("TaskCreated", ins.id, user_id, ins.tasks[ins.id].title)>>)

\* PUT /api/{user_id}/tasks/{task_id}
rest_update_task(T, n, user_id, task_id, task_in, clock) ==
    IF ~crud_get_task(T, task_id, user_id)
    THEN Handled(T, n, Http(404), <<>>)
    ELSE LET U == crud_update_task(T, task_id, task_in, clock)
         IN  Handled(U, n, Http(200),
                     <<Event("TaskUpdated", task_id, user_id, U[task_id].title)>>)

\* DELETE /api/{user_id}/tasks/{task_id}
rest_delete_task(T, n, user_id, task_id, clock) ==
    IF ~crud_get_task(T, task_id, user_id)
    THEN Handled(T, n, Http(404), <<>>)
    ELSE LET title == T[task_id].title
             d == crud_delete_task(T, task_id, user_id)
         IN  Handled(d.tasks, n, Http(204),
                     IF d.success
                     THEN <<Event("TaskDeleted", task_id, user_id, title)>>
                     ELSE <<>>)

\* PATCH /api/{user_id}/tasks/{task_id}/complete
toggle_task_complete(T, n, user_id, task_id, clock) ==
    IF ~crud_get_task(T, task_id, user_id)
    THEN Handled(T, n, Http(404), <<>>)
    ELSE Handled(crud_toggle_task_complete(T, task_id, clock), n, Http(200), <<>>)

\* a route has handled a request of user_id
Request(user_id, name, arguments, h) ==
    /\ tasks' = h.tasks
    /\ next_id' = h.next_id
    /\ result' = h.ret
    /\ events' = h.events
    /\ call' = [tool |-> name, user |-> user_id, args |-> arguments]
    /\ before' = tasks
    /\ UNCHANGED <<storevars, twinvars, now, deleted, chatvars>>

\* what the clients send
TaskCreates == {[title |-> <<"a">>]}

TaskUpdates == {[title |-> Some(<<"b">>)], [title |-> None]}

RestCreate ==
    /\ call = NoCall
    /\ next_id <= MaxId
    /\ \E u \in Users, task_in \in TaskCreates :
        Request(u, "create_task", [task_in |-> task_in],
                rest_create_task(tasks, next_id, u, task_in, now))

RestUpdate ==
    /\ call = NoCall
    /\ \E u \in Users, i \in 1..MaxId, task_in \in TaskUpdates :
        Request(u, "update_task", [task_id |-> i, task_in |-> task_in],
                rest_update_task(tasks, next_id, u, i, task_in, now))

RestDelete ==
    /\ call = NoCall
    /\ \E u \in Users, i \in 1..MaxId :
        Request(u, "delete_task", [task_id |-> i],
                rest_delete_task(tasks, next_id, u, i, now))

RestToggle ==
    /\ call = NoCall
    /\ \E u \in Users, i \in 1..MaxId :
        Request(u, "toggle_task_complete", [task_id |-> i],
                toggle_task_complete(tasks, next_id, u, i, now))

\* requests of the two users, one at a time
NextRest ==
    \/ RestCreate
    \/ RestUpdate
    \/ RestDelete
    \/ RestToggle
    \/ Return

SpecRest == Init /\ [][NextRest]_vars

(***************************************************************************)
(* The console application's task storage (src/storage.py).  _tasks is a   *)
(* function from task id to Task; a method call is one step, and its       *)
(* caller takes the returned value in the next.                            *)
(***************************************************************************)
MAX_TITLE_LENGTH == 100
MAX_DESCRIPTION_LENGTH == 500

\* a returned Task, True and tuple
Object(task) == [kind |-> "task", payload |-> task]
Bool(b) == [kind |-> "bool", payload |-> b]
Tuple(t) == [kind |-> "tuple", payload |-> t]

\* models.Task(id=..., title=..., description=...)
ConsoleTask(id, title, description, created_at) ==
    [id |-> id, title |-> title, description |-> description,
     completed |-> FALSE, created_at |-> created_at]

\* d[k] = v
setitem(d, k, v) == [i \in DOMAIN d \cup {k} |-> IF i = k THEN v ELSE d[i]]

\* add that numbers the new task by the number of stored tasks
add_len_id(T, n, title, description, t) ==
    LET stripped == strip(title)
        desc == strip(description)
        id == Cardinality(DOMAIN T) + 1
    IN  IF stripped = <<>> THEN Outcome(T, n, Raise("EmptyTitleError"))
        ELSE IF Len(stripped) > MAX_TITLE_LENGTH
        THEN Outcome(T, n, Raise("TitleTooLongError"))
        ELSE IF Len(desc) > MAX_DESCRIPTION_LENGTH
        THEN Outcome(T, n, Raise("DescriptionTooLongError"))
        ELSE LET task == ConsoleTask(id, stripped, desc, t)
             IN  Outcome(setitem(T, id, task), n + 1, Object(task))

\* add that validates the title as given
add_unstripped(T, n, title, description, t) ==
    LET desc == strip(description)
    IN  IF title = <<>> THEN Outcome(T, n, Raise("EmptyTitleError"))
        ELSE IF Len(title) > MAX_TITLE_LENGTH
        THEN Outcome(T, n, Raise("TitleTooLongError"))
        ELSE IF Len(desc) > MAX_DESCRIPTION_LENGTH
        THEN Outcome(T, n, Raise("DescriptionTooLongError"))
        ELSE LET task == ConsoleTask(n, strip(title), desc, t)
             IN  Outcome(setitem(T, n, task), n + 1, Object(task))

\* InMemoryStorage.add on the storage (T, n) at time t
add(T, n, title, description, t) ==
    LET stripped == strip(title)
        desc == strip(description)
    IN  IF stripped = <<>> THEN Outcome(T, n, Raise("EmptyTitleError"))
        ELSE IF Len(stripped) > MAX_TITLE_LENGTH
        THEN Outcome(T, n, Raise("TitleTooLongError"))
        ELSE IF Len(desc) > MAX_DESCRIPTION_LENGTH
        THEN Outcome(T, n, Raise("DescriptionTooLongError"))
        ELSE LET task == ConsoleTask(n, stripped, desc, t)
             IN  Outcome(setitem(T, n, task), n + 1, Object(task))

\* InMemoryStorage.get
get(T, n, task_id) ==
    IF task_id \notin DOMAIN T
    THEN Outcome(T, n, Raise("TaskNotFoundError"))
    ELSE Outcome(T, n, Object(T[task_id]))

\* the keys of a dict in the order of their insertion: add inserts the keys in
\* increasing order and no method inserts a key again
RECURSIVE keys(_)
keys(D) ==
    IF D = {} THEN <<>>
    ELSE LET k == CHOOSE i \in D : \A j \in D : i <= j
         IN  <<k>> \o keys(D \ {k})

\* dict.values()
values(T) == [p \in 1..Cardinality(DOMAIN T) |-> T[keys(DOMAIN T)[p]]]

\* sorted(l, key=lambda t: t.id) with the order turned round
RECURSIVE sorted_reverse(_)
sorted_reverse(l) ==
    IF l = <<>> THEN <<>>
    ELSE LET rest == sorted_reverse(SubSeq(l, 1, Len(l) - 1))
             t == l[Len(l)]
             p == Cardinality({i \in 1..Len(rest) : rest[i].id > t.id})
         IN  SubSeq(rest, 1, p) \o <<t>> \o SubSeq(rest, p + 1, Len(rest))

\* sorted(l, key=lambda t: t.id): a stable sort
RECURSIVE sorted(_)
sorted(l) ==
    IF l = <<>> THEN <<>>
    ELSE LET rest == sorted(SubSeq(l, 1, Len(l) - 1))
             t == l[Len(l)]
             p == Cardinality({i \in 1..Len(rest) : rest[i].id <= t.id})
         IN  SubSeq(rest, 1, p) \o <<t>> \o SubSeq(rest, p + 1, Len(rest))

\* get_all that lists the newest task first
get_all_descending(T, n) == Outcome(T, n, List(sorted_reverse(values(T))))

\* InMemoryStorage.get_all
get_all(T, n) == Outcome(T, n, List(sorted(values(T))))

\* update that takes an omitted description for an empty one
update_resets_description(T, n, task_id, title, description) ==
    IF task_id \notin DOMAIN T
    THEN Outcome(T, n, Raise("TaskNotFoundError"))
    ELSE
        LET task == T[task_id]
            new_title == IF title.some THEN strip(title.v) ELSE <<>>
            new_description == IF description.some THEN strip(description.v) ELSE <<>>
        IN  IF title.some /\ new_title = <<>>
            THEN Outcome(T, n, Raise("EmptyTitleError"))
            ELSE IF title.some /\ Len(new_title) > MAX_TITLE_LENGTH
            THEN Outcome(T, n, Raise("TitleTooLongError"))
            ELSE
                LET titled == IF title.some THEN [task EXCEPT !.title = new_title]
                              ELSE task
                IN  IF Len(new_description) > MAX_DESCRIPTION_LENGTH
                    THEN Outcome([T EXCEPT ![task_id] = titled], n,
                                 Raise("DescriptionTooLongError"))
                    ELSE
                        LET updated == [titled EXCEPT !.description = new_description]
                        IN  Outcome([T EXCEPT ![task_id] = updated], n, Object(updated))

\* update that assigns the title as given
update_unstripped(T, n, task_id, title, description) ==
    IF task_id \notin DOMAIN T
    THEN Outcome(T, n, Raise("TaskNotFoundError"))
    ELSE
        LET task == T[task_id]
            new_title == IF title.some THEN strip(title.v) ELSE <<>>
            new_description == IF description.some THEN strip(description.v) ELSE <<>>
        IN  IF title.some /\ new_title = <<>>
            THEN Outcome(T, n, Raise("EmptyTitleError"))
            ELSE IF title.some /\ Len(new_title) > MAX_TITLE_LENGTH
            THEN Outcome(T, n, Raise("TitleTooLongError"))
            ELSE
                LET titled == IF title.some THEN [task EXCEPT !.title = title.v]
                              ELSE task
                IN  IF description.some /\ Len(new_description) > MAX_DESCRIPTION_LENGTH
                    THEN Outcome([T EXCEPT ![task_id] = titled], n,
                                 Raise("DescriptionTooLongError"))
                    ELSE
                        LET updated ==
                                IF description.some
                                THEN [titled EXCEPT !.description = new_description]
                                ELSE titled
                        IN  Outcome([T EXCEPT ![task_id] = updated], n, Object(updated))

\* InMemoryStorage.update: title and description are None or Some(string);
\* the title is assigned before the description is validated
update(T, n, task_id, title, description) ==
    IF task_id \notin DOMAIN T
    THEN Outcome(T, n, Raise("TaskNotFoundError"))
    ELSE
        LET task == T[task_id]
            new_title == IF title.some THEN strip(title.v) ELSE <<>>
            new_description == IF description.some THEN strip(description.v) ELSE <<>>
        IN  IF title.some /\ new_title = <<>>
            THEN Outcome(T, n, Raise("EmptyTitleError"))
            ELSE IF title.some /\ Len(new_title) > MAX_TITLE_LENGTH
            THEN Outcome(T, n, Raise("TitleTooLongError"))
            ELSE
                LET titled == IF title.some THEN [task EXCEPT !.title = new_title]
                              ELSE task
                IN  IF description.some /\ Len(new_description) > MAX_DESCRIPTION_LENGTH
                    THEN Outcome([T EXCEPT ![task_id] = titled], n,
                                 Raise("DescriptionTooLongError"))
                    ELSE
                        LET updated ==
                                IF description.some
                                THEN [titled EXCEPT !.description = new_description]
                                ELSE titled
                        IN  Outcome([T EXCEPT ![task_id] = updated], n, Object(updated))

\* delete that passes over a missing task
delete_ignores_missing(T, n, task_id) == Outcome(Remove(T, task_id), n, Bool(TRUE))

\* delete that removes the task stored last
delete_popitem(T, n, task_id) ==
    IF task_id \notin DOMAIN T
    THEN Outcome(T, n, Raise("TaskNotFoundError"))
    ELSE Outcome(Remove(T, keys(DOMAIN T)[Cardinality(DOMAIN T)]), n, Bool(TRUE))

\* InMemoryStorage.delete
delete(T, n, task_id) ==
    IF task_id \notin DOMAIN T
    THEN Outcome(T, n, Raise("TaskNotFoundError"))
    ELSE Outcome(Remove(T, task_id), n, Bool(TRUE))

\* toggle_complete that marks the task complete
toggle_complete_sets_true(T, n, task_id) ==
    IF task_id \notin DOMAIN T
    THEN Outcome(T, n, Raise("TaskNotFoundError"))
    ELSE LET task == [T[task_id] EXCEPT !.completed = TRUE]
         IN  Outcome([T EXCEPT ![task_id] = task], n, Object(task))

\* InMemoryStorage.toggle_complete
toggle_complete(T, n, task_id) ==
    IF task_id \notin DOMAIN T
    THEN Outcome(T, n, Raise("TaskNotFoundError"))
    ELSE LET task == [T[task_id] EXCEPT !.completed = ~T[task_id].completed]
         IN  Outcome([T EXCEPT ![task_id] = task], n, Object(task))

\* count that takes every task for a pending one
count_all_pending(T, n) ==
    LET total == Len(values(T))
        complete == Cardinality({p \in 1..total : values(T)[p].completed})
    IN  Outcome(T, n, Tuple(<<total, complete, total>>))

\* InMemoryStorage.count
count(T, n) ==
    LET total == Len(values(T))
        complete == Cardinality({p \in 1..total : values(T)[p].completed})
        pending_count == total - complete
    IN  Outcome(T, n, Tuple(<<total, complete, pending_count>>))

\* what the callers pass
LongTitle == [i \in 1..(MAX_TITLE_LENGTH + 1) |-> "a"]
LongDescription == [i \in 1..(MAX_DESCRIPTION_LENGTH + 1) |-> "d"]
StoreTitles == {<<"a">>, <<" ", "b", " ">>, <<>>, <<" ">>, <<" ", "\t">>, LongTitle}
StoreDescriptions == {<<>>, <<"d", " ">>}
StoreIds == 1..(MaxId + 1)
StoreUpdates ==
    {[title |-> Some(<<"c", " ">>), description |-> None],
     [title |-> None, description |-> Some(<<" ", "e">>)],
     [title |-> Some(<<"c">>), description |-> Some(<<"e">>)],
     [title |-> None, description |-> None],
     [title |-> Some(<<" ">>), description |-> Some(<<"e">>)],
     [title |-> Some(<<"c">>), description |-> Some(LongDescription)]}

\* one method of the storage runs to its return or its raise
Method(name, arguments, o) ==
    /\ op = NoOp
    /\ _tasks' = o.tasks
    /\ _next_id' = o.next_id
    /\ out' = o.ret
    /\ op' = [method |-> name, args |-> arguments]
    /\ prev' = [tasks |-> _tasks, next_id |-> _next_id]
    /\ issued' = issued \cup (IF name = "add" /\ o.ret.kind = "task"
                              THEN {o.ret.payload.id} ELSE {})
    /\ UNCHANGED backendvars

\* the caller takes what the method returned or handles what it raised
Taken ==
    /\ op # NoOp
    /\ op' = NoOp
    /\ out' = NoResult
    /\ prev' = NoStorage
    /\ UNCHANGED <<_tasks, _next_id, issued, backendvars>>

Add ==
    /\ _next_id <= MaxId
    /\ \E title \in StoreTitles, description \in StoreDescriptions :
        Method("add", [title |-> title, description |-> description],
               add(_tasks, _next_id, title, description, now))

Get ==
    /\ op = NoOp
    /\ \E task_id \in StoreIds :
        Method("get", [task_id |-> task_id], get(_tasks, _next_id, task_id))

GetAll ==
    /\ op = NoOp
    /\ Method("get_all", <<>>, get_all(_tasks, _next_id))

Update ==
    /\ op = NoOp
    /\ \E task_id \in StoreIds, u \in StoreUpdates :
        Method("update",
               [task_id |-> task_id, title |-> u.title, description |-> u.description],
               update(_tasks, _next_id, task_id, u.title, u.description))

Delete ==
    /\ op = NoOp
    /\ \E task_id \in StoreIds :
        Method("delete", [task_id |-> task_id], delete(_tasks, _next_id, task_id))

ToggleComplete ==
    /\ op = NoOp
    /\ \E task_id \in StoreIds :
        Method("toggle_complete", [task_id |-> task_id],
               toggle_complete(_tasks, _next_id, task_id))

Count ==
    /\ op = NoOp
    /\ Method("count", <<>>, count(_tasks, _next_id))

NextStorage ==
    \/ Add
    \/ Get
    \/ GetAll
    \/ Update
    \/ Delete
    \/ ToggleComplete
    \/ Count
    \/ Taken

SpecStorage == Init /\ [][NextStorage]_vars

(***************************************************************************)
(* The tool catalog: what is declared to the language model, the           *)
(* definitions kept beside the executor, and the executor's methods.  A    *)
(* schema is the set of its <<parameter, type>> pairs, the set of required *)
(* parameters and the set of <<parameter, value>> pairs of its enums.      *)
(***************************************************************************)
Schema(properties, required, enum) ==
    [properties |-> properties, required |-> required, enum |-> enum]

StatusEnum == {<<"status", v>> : v \in {"all", "pending", "completed"}}

\* GEMINI_TOOLS of agent.py
GEMINI_TOOLS ==
    [add_task |->
        Schema({<<"title", "string">>, <<"description", "string">>}, {"title"}, {}),
     list_tasks |-> Schema({<<"status", "string">>}, {}, StatusEnum),
     complete_task |-> Schema({<<"task_id", "integer">>}, {"task_id"}, {}),
     delete_task |-> Schema({<<"task_id", "integer">>}, {"task_id"}, {}),
     update_task |->
        Schema({<<"task_id", "integer">>, <<"title", "string">>,
                <<"description", "string">>}, {"task_id"}, {})]

\* TOOL_DEFINITIONS of mcp_tools.py
TOOL_DEFINITIONS ==
    [add_task |->
        Schema({<<"title", "string">>, <<"description", "string">>,
                <<"priority", "string">>, <<"due_date", "string">>,
                <<"reminder_at", "string">>},
               {"title"},
               {<<"priority", v>> : v \in {"high", "medium", "low"}}),
     list_tasks |-> Schema({<<"status", "string">>}, {}, StatusEnum),
     complete_task |-> Schema({<<"task_id", "integer">>}, {"task_id"}, {}),
     delete_task |-> Schema({<<"task_id", "integer">>}, {"task_id"}, {}),
     update_task |->
        Schema({<<"task_id", "integer">>, <<"title", "string">>,
                <<"description", "string">>}, {"task_id"}, {})]

\* the parameters of the executor's methods; required are those without a
\* default
Signature ==
    [add_task |->
        [parameters |-> {"title", "description", "priority", "due_date", "reminder_at"},
         required |-> {"title"}],
     list_tasks |-> [parameters |-> {"status"}, required |-> {}],
     complete_task |-> [parameters |-> {"task_id"}, required |-> {"task_id"}],
     delete_task |-> [parameters |-> {"task_id"}, required |-> {"task_id"}],
     update_task |->
        [parameters |-> {"task_id", "title", "description"}, required |-> {"task_id"}]]

(***************************************************************************)
(* Inputs the properties range over: at every table the state machine      *)
(* reaches, the properties apply the tools to each of these.               *)
(***************************************************************************)
Titles == {<<>>, <<" ">>, <<"a">>, <<"b", " ">>}

Descriptions == {<<>>, <<"d">>}

Priorities == {"high", "medium", "low", "HIGH", "urgent"}

Statuses == {"all", "pending", "completed", "done"}

IdInts == (0 - 1)..(MaxId + 1)

\* the ways to pass the integer n as task_id
IdArgsOf(n) == {IntArg(n), StrArg(str(n))}

AllAddArgs ==
    {[title |-> t] : t \in Titles}
    \cup {[title |-> <<"a">>, description |-> <<"d">>, priority |-> StrArg(p)] :
            p \in Priorities}

AllListArgs == {<<>>} \cup {[status |-> s] : s \in Statuses}

AllIdArgs == {[task_id |-> a] : a \in UNION {IdArgsOf(n) : n \in IdInts}}

TitleParams == {None} \cup {Some(t) : t \in Titles}

DescriptionParams == {None} \cup {Some(d) : d \in Descriptions}

\* argument mappings of update_task for one task_id: the fields alone and
\* together
UpdateArgsOf(a) ==
    {[task_id |-> a]}
    \cup {[task_id |-> a, title |-> t] : t \in TitleParams}
    \cup {[task_id |-> a, description |-> d] : d \in DescriptionParams}
    \cup {[task_id |-> a, title |-> t, description |-> Some(<<"d">>)] : t \in TitleParams}

\* for each task_id an update of the title, of the description and of both
SomeUpdateArgs ==
    UNION {{[task_id |-> a.task_id, title |-> Some(<<" ">>)],
            [task_id |-> a.task_id, description |-> Some(<<"d">>)],
            [task_id |-> a.task_id, title |-> Some(<<"a">>), description |-> Some(<<>>)]} :
           a \in AllIdArgs}

AllCalls ==
    {[name |-> "add_task", args |-> a] : a \in AllAddArgs}
    \cup {[name |-> "list_tasks", args |-> a] : a \in AllListArgs}
    \cup {[name |-> "complete_task", args |-> a] : a \in AllIdArgs}
    \cup {[name |-> "delete_task", args |-> a] : a \in AllIdArgs}
    \cup {[name |-> "update_task", args |-> a] : a \in SomeUpdateArgs}

\* no call is in flight: the table is at rest
Idle == call = NoCall

\* the ids of the rows of user u in table T
Owned(T, u) == {i \in DOMAIN T : T[i].user_id = u}

\* the ids of the rows of T that are not u's
NotOwned(T, u) == DOMAIN T \ Owned(T, u)

\* the rows that are not u's are the same rows in T1 and T2
OthersUntouched(T1, T2, u) ==
    /\ NotOwned(T1, u) = NotOwned(T2, u)
    /\ \A i \in NotOwned(T1, u) : T2[i] = T1[i]

\* a returned list names only rows of u in T
ListsOnly(ret, T, u) ==
    ret.kind = "list" =>
        \A k \in 1..Len(ret.payload) : ret.payload[k].id \in Owned(T, u)

(***************************************************************************)
(* C1. Per-user isolation: a call by the executor bound to user u leaves   *)
(* every row that is not u's as it was (no such row appears, disappears or *)
(* changes), and a list it returns names only rows of u.  Checked for the  *)
(* call that has just returned, and at every table at rest for every call  *)
(* either user could make next.                                            *)
(***************************************************************************)
C1_Isolation ==
    /\ ~Idle =>
        /\ OthersUntouched(before, tasks, call.user)
        /\ ListsOnly(result, before, call.user)
    /\ Idle =>
        \A u \in Users, c \in AllCalls :
            \A o \in execute_tool(tasks, next_id, u, c.name, c.args, now) :
                /\ OthersUntouched(tasks, o.tasks, u)
                /\ ListsOnly(o.ret, tasks, u)

\* user B's call on a row of user A has returned and the row is still there
C1_Witness ==
    /\ call.tool \in {"complete_task", "delete_task", "update_task"}
    /\ call.user = "B"
    /\ call.args.task_id = IntArg(1)
    /\ 1 \in Owned(before, "A")
    /\ 1 \in Owned(tasks, "A")
    /\ Owned(tasks, "B") # {}

(***************************************************************************)
(* C2. For a task_id (int or decimal string) that names no row of the      *)
(* executor's user, complete_task, delete_task and update_task return      *)
(* exactly {error: "Task <id> not found"}, whether the id is free or       *)
(* names a row of another user.                                            *)
(***************************************************************************)
NotFoundPayload(n) ==
    [kind |-> "dict", payload |-> [error |-> <<"Task ">> \o str(n) \o <<" not found">>]]

IdTools == {"complete_task", "delete_task", "update_task"}

C2_NotFoundSame ==
    /\ (~Idle /\ call.tool \in IdTools) =>
        \A n \in IdInts :
            (call.args.task_id \in IdArgsOf(n) /\ n \notin Owned(before, call.user))
                => result = NotFoundPayload(n)
    /\ Idle =>
        \A u \in Users, n \in IdInts :
            n \notin Owned(tasks, u) =>
                \A a \in IdArgsOf(n) :
                    /\ \A name \in {"complete_task", "delete_task"} :
                        \A o \in execute_tool(tasks, next_id, u, name, [task_id |-> a], now) :
                            o.ret = NotFoundPayload(n)
                    /\ \A args \in UpdateArgsOf(a) :
                        \A o \in execute_tool(tasks, next_id, u, "update_task", args, now) :
                            o.ret = NotFoundPayload(n)

\* a call on a row of the other user has returned the not-found payload
C2_Witness ==
    /\ call.tool \in IdTools
    /\ call.args.task_id = IntArg(1)
    /\ 1 \in NotOwned(before, call.user)
    /\ result = NotFoundPayload(1)

(***************************************************************************)
(* C3. add_task with a title of length >= 1 creates exactly one row, owned *)
(* by the executor's user, under an id greater than the id of every row    *)
(* created before (the rows in the table and the rows deleted from it),    *)
(* leaves the other rows alone and returns that id with status "created".  *)
(***************************************************************************)
CreatedOne(T1, T2, u, ret) ==
    /\ ret.kind = "dict"
    /\ "status" \in DOMAIN ret.payload
    /\ ret.payload.status = "created"
    /\ ret.payload.task_id \notin DOMAIN T1
    /\ DOMAIN T2 = DOMAIN T1 \cup {ret.payload.task_id}
    /\ T2[ret.payload.task_id].user_id = u
    /\ \A j \in DOMAIN T1 \cup deleted : ret.payload.task_id > j
    /\ \A i \in DOMAIN T1 : T2[i] = T1[i]

C3_AddCreatesOne ==
    /\ (~Idle /\ call.tool = "add_task" /\ Len(call.args.title) >= 1) =>
        CreatedOne(before, tasks, call.user, result)
    /\ Idle =>
        \A u \in Users, a \in AllAddArgs :
            Len(a.title) >= 1 =>
                \A o \in execute_tool(tasks, next_id, u, "add_task", a, now) :
                    CreatedOne(tasks, o.tasks, u, o.ret)

\* user B has added a row after row 1 of user A was deleted
C3_Witness ==
    /\ call.tool = "add_task"
    /\ call.user = "B"
    /\ 1 \in deleted
    /\ result.payload.task_id = 2
    /\ Owned(tasks, "B") = {2}

(***************************************************************************)
(* C4. list_tasks returns exactly the rows of the executor's user that the *)
(* status selects, each once: the pending rows for "pending", the          *)
(* completed rows for "completed", all rows for "all", for no status and   *)
(* for any other value; every entry shows the fields of its row.           *)
(***************************************************************************)
Selected(T, u, status) ==
    IF status = "pending" THEN {i \in Owned(T, u) : ~T[i].completed}
    ELSE IF status = "completed" THEN {i \in Owned(T, u) : T[i].completed}
    ELSE Owned(T, u)

StatusOf(args) == IF "status" \in DOMAIN args THEN args.status ELSE "all"

ExactList(ret, T, S) ==
    /\ ret.kind = "list"
    /\ Len(ret.payload) = Cardinality(S)
    /\ {ret.payload[k].id : k \in 1..Len(ret.payload)} = S
    /\ \A k \in 1..Len(ret.payload) :
        LET e == ret.payload[k]
        IN  /\ e.title = T[e.id].title
            /\ e.completed = T[e.id].completed
            /\ e.description = T[e.id].description
            /\ e.priority = T[e.id].priority

C4_ListExact ==
    /\ (~Idle /\ call.tool = "list_tasks") =>
        ExactList(result, before, Selected(before, call.user, StatusOf(call.args)))
    /\ Idle =>
        \A u \in Users, a \in AllListArgs :
            \A o \in execute_tool(tasks, next_id, u, "list_tasks", a, now) :
                ExactList(o.ret, tasks, Selected(tasks, u, StatusOf(a)))

\* a user with one pending and one completed row has listed the pending one
C4_Witness ==
    /\ call.tool = "list_tasks"
    /\ call.args = [status |-> "pending"]
    /\ Cardinality(Owned(tasks, call.user)) = 2
    /\ Len(result.payload) = 1
    /\ \E i \in Owned(tasks, call.user) : tasks[i].completed

(***************************************************************************)
(* C5. The list that list_tasks returns is ordered newest-created first:   *)
(* of two returned rows the one created later, which has the larger id,    *)
(* comes first, also when both have the same created_at.                   *)
(***************************************************************************)
C5_NewestFirst ==
    (~Idle /\ call.tool = "list_tasks") =>
        \A i, j \in 1..Len(result.payload) :
            i < j => result.payload[i].id > result.payload[j].id

(***************************************************************************)
(* C6. update_task on a row of the executor's user: the title stays when   *)
(* title is omitted, None or "", and becomes the given value otherwise;    *)
(* a supplied description is stored, and with only a description the       *)
(* title stays; the call returns {task_id, status "updated", title} with   *)
(* the title stored after the call.                                        *)
(***************************************************************************)
Updated(T1, T2, ret, n, args) ==
    LET title == IF "title" \in DOMAIN args THEN args.title ELSE None
        description == IF "description" \in DOMAIN args THEN args.description ELSE None
    IN  /\ n \in DOMAIN T2
        /\ T2[n].title = IF title.some /\ Len(title.v) > 0 THEN title.v ELSE T1[n].title
        /\ description.some => T2[n].description = description.v
        /\ ret = [kind |-> "dict",
                  payload |-> [task_id |-> n, status |-> "updated", title |-> T2[n].title]]

C6_UpdateFields ==
    /\ (~Idle /\ call.tool = "update_task") =>
        \A n \in Owned(before, call.user) :
            call.args.task_id \in IdArgsOf(n) =>
                Updated(before, tasks, result, n, call.args)
    /\ Idle =>
        \A u \in Users :
            \A n \in Owned(tasks, u) :
                \A a \in IdArgsOf(n) :
                    \A args \in UpdateArgsOf(a) :
                        \A o \in execute_tool(tasks, next_id, u, "update_task", args, now) :
                            Updated(tasks, o.tasks, o.ret, n, args)

\* an update with only a description has stored the description of a row
\* and kept the title that an earlier update had given it
C6_Witness ==
    /\ call.tool = "update_task"
    /\ DOMAIN call.args = {"task_id", "description"}
    /\ call.args.task_id = IntArg(1)
    /\ 1 \in Owned(before, call.user)
    /\ before[1].title = <<" ">>
    /\ before[1].description = <<>>
    /\ tasks[1].description = <<"d">>
    /\ result.payload.title = <<" ">>

(***************************************************************************)
(* C7. No update_task call makes a title empty: a row whose title has a    *)
(* character other than whitespace before the call has one after it.       *)
(***************************************************************************)
Blank(title) == \A k \in 1..Len(title) : title[k] = " "

C7_TitleNeverBlank ==
    (~Idle /\ call.tool = "update_task") =>
        \A i \in DOMAIN before \cap DOMAIN tasks :
            ~Blank(before[i].title) => ~Blank(tasks[i].title)

(***************************************************************************)
(* C8. complete_task is idempotent: on a completed row of the executor's   *)
(* user it returns {task_id, status "completed", title} again, the same    *)
(* payload as the call that completed the row, and leaves the row          *)
(* completed with its other fields (all but updated_at) as they were.      *)
(***************************************************************************)
CompletedPayload(n, title) ==
    [kind |-> "dict", payload |-> [task_id |-> n, status |-> "completed", title |-> title]]

SameButUpdatedAt(r1, r2) == [r1 EXCEPT !.updated_at = 0] = [r2 EXCEPT !.updated_at = 0]

C8_CompleteIdempotent ==
    /\ (~Idle /\ call.tool = "complete_task") =>
        \A n \in Owned(before, call.user) :
            (call.args.task_id \in IdArgsOf(n) /\ before[n].completed) =>
                /\ result = CompletedPayload(n, before[n].title)
                /\ DOMAIN tasks = DOMAIN before
                /\ tasks[n].completed
                /\ SameButUpdatedAt(before[n], tasks[n])
    /\ Idle =>
        \A u \in Users :
            \A n \in Owned(tasks, u) :
                \A a1, a2 \in IdArgsOf(n), later \in now..MaxTime :
                    LET o1 == complete_task(tasks, next_id, u, a1, now)
                        o2 == complete_task(o1.tasks, o1.next_id, u, a2, later)
                    IN  /\ o1.ret = CompletedPayload(n, tasks[n].title)
                        /\ o2.ret = o1.ret
                        /\ DOMAIN o2.tasks = DOMAIN tasks
                        /\ o2.tasks[n].completed
                        /\ SameButUpdatedAt(o1.tasks[n], o2.tasks[n])

\* complete_task has returned for a row that was already completed
C8_Witness ==
    /\ call.tool = "complete_task"
    /\ call.args.task_id = IntArg(1)
    /\ 1 \in Owned(before, call.user)
    /\ before[1].completed
    /\ result = CompletedPayload(1, tasks[1].title)

(***************************************************************************)
(* C9. Deletion is permanent: delete_task on a row of the executor's user  *)
(* returns {task_id, status "deleted", title} with the title the row had,  *)
(* and from then on the id names no row: no list shows it, complete_task,  *)
(* update_task and delete_task on it return the not-found payload for      *)
(* every user, and no add_task gives the id to a new row.                  *)
(***************************************************************************)
DeletedPayload(n, title) ==
    [kind |-> "dict", payload |-> [task_id |-> n, status |-> "deleted", title |-> title]]

C9_DeletePermanent ==
    /\ (~Idle /\ call.tool = "delete_task") =>
        \A n \in Owned(before, call.user) :
            call.args.task_id \in IdArgsOf(n) =>
                /\ result = DeletedPayload(n, before[n].title)
                /\ n \in deleted
    /\ \A n \in deleted : n \notin DOMAIN tasks
    /\ Idle =>
        \A n \in deleted, u \in Users :
            /\ \A a \in AllListArgs :
                \A o \in execute_tool(tasks, next_id, u, "list_tasks", a, now) :
                    \A k \in 1..Len(o.ret.payload) : o.ret.payload[k].id # n
            /\ \A a \in IdArgsOf(n) :
                /\ \A name \in {"complete_task", "delete_task"} :
                    \A o \in execute_tool(tasks, next_id, u, name, [task_id |-> a], now) :
                        o.ret = NotFoundPayload(n) /\ n \notin DOMAIN o.tasks
                /\ \A args \in UpdateArgsOf(a) :
                    \A o \in execute_tool(tasks, next_id, u, "update_task", args, now) :
                        o.ret = NotFoundPayload(n) /\ n \notin DOMAIN o.tasks
            /\ \A a \in AllAddArgs :
                \A o \in execute_tool(tasks, next_id, u, "add_task", a, now) :
                    n \notin DOMAIN o.tasks

\* row 1 was deleted, a row was added after that, and the former owner's
\* call on id 1 has returned the not-found payload
C9_Witness ==
    /\ call.tool \in IdTools
    /\ call.args.task_id = IntArg(1)
    /\ 1 \in deleted
    /\ 2 \in Owned(tasks, call.user)
    /\ result = NotFoundPayload(1)

(***************************************************************************)
(* C10. A task_id given as the decimal string of n is handled as the int   *)
(* n: complete_task, delete_task and update_task return the same payload   *)
(* and leave the same table for both.                                      *)
(***************************************************************************)
C10_StringIdSame ==
    /\ (~Idle /\ call.tool \in IdTools /\ call.args.task_id.t = "str") =>
        \A n \in IdInts :
            call.args.task_id = StrArg(str(n)) =>
                \A o \in execute_tool(before, next_id, call.user, call.tool,
                                      [call.args EXCEPT !.task_id = IntArg(n)], now) :
                    o.ret = result /\ o.tasks = tasks
    /\ Idle =>
        \A u \in Users, n \in IdInts :
            /\ complete_task(tasks, next_id, u, StrArg(str(n)), now)
                  = complete_task(tasks, next_id, u, IntArg(n), now)
            /\ delete_task(tasks, next_id, u, StrArg(str(n)), now)
                  = delete_task(tasks, next_id, u, IntArg(n), now)
            /\ \A t \in TitleParams, d \in DescriptionParams :
                  update_task(tasks, next_id, u, StrArg(str(n)), t, d, now)
                      = update_task(tasks, next_id, u, IntArg(n), t, d, now)

\* complete_task("1") has completed row 1
C10_Witness ==
    /\ call.tool = "complete_task"
    /\ call.args.task_id = StrArg(<<"1">>)
    /\ 1 \in Owned(before, call.user)
    /\ ~before[1].completed
    /\ tasks[1].completed
    /\ result = CompletedPayload(1, tasks[1].title)

(***************************************************************************)
(* C11. execute_tool called with a name that is none of the five tools'    *)
(* returns {error: "Unknown tool: <name>"} whatever the argument mapping,  *)
(* does not raise and leaves the task table and the id allocation as they  *)
(* were.                                                                   *)
(***************************************************************************)
ToolNames == {"add_task", "list_tasks", "complete_task", "delete_task", "update_task"}

UnknownNames == {"get_task", "", "ADD_TASK", "add_task ", "list", "task_add"}

AnyArgs ==
    AllAddArgs \cup AllListArgs \cup AllIdArgs
    \cup {[task_id |-> StrArg(<<"x">>)], [nothing |-> None]}

UnknownPayload(name) ==
    [kind |-> "dict", payload |-> [error |-> <<"Unknown tool: ", name>>]]

C11_UnknownTool ==
    /\ (~Idle /\ call.tool \notin ToolNames) =>
        /\ result = UnknownPayload(call.tool)
        /\ tasks = before
    /\ Idle =>
        \A u \in Users, name \in UnknownNames, a \in AnyArgs :
            \A o \in execute_tool(tasks, next_id, u, name, a, now) :
                /\ o.ret = UnknownPayload(name)
                /\ o.tasks = tasks
                /\ o.next_id = next_id

\* an unknown name has been answered while the table holds rows
C11_Witness ==
    /\ call.tool = "get_task"
    /\ call.args = [task_id |-> IntArg(1)]
    /\ 1 \in DOMAIN before
    /\ result = UnknownPayload("get_task")
    /\ tasks = before

(***************************************************************************)
(* C12. execute_tool does not raise for user-correctable conditions: for   *)
(* each of the five tools and every argument mapping that has the required *)
(* keys and only declared keys, whatever the values (a task_id string that *)
(* is no integer literal, a status or priority outside its enum, a         *)
(* priority that is no string, an unparsable date), it returns a result or *)
(* an {error: ...} payload.                                                *)
(***************************************************************************)
Required(name) ==
    CASE name = "add_task" -> {"title"}
      [] name = "list_tasks" -> {}
      [] OTHER -> {"task_id"}

Declared(name) ==
    CASE name = "add_task" -> {"title", "description", "priority", "due_date", "reminder_at"}
      [] name = "list_tasks" -> {"status"}
      [] name = "update_task" -> {"task_id", "title", "description"}
      [] OTHER -> {"task_id"}

WellKeyed(name, args) ==
    Required(name) \subseteq DOMAIN args /\ DOMAIN args \subseteq Declared(name)

\* argument mappings with the right keys and values a caller can get wrong
OddIds == {StrArg(<<"x">>), StrArg(<<"1", ".", "5">>), StrArg(<<>>), StrArg(<<" ", "1">>)}

OddCalls ==
    {[name |-> "add_task", args |-> [title |-> <<"a">>, priority |-> StrArg("urgent")]],
     [name |-> "add_task", args |-> [title |-> <<"a">>, priority |-> IntArg(1)]],
     [name |-> "add_task", args |-> [title |-> <<"a">>, due_date |-> Some("tomorrow")]],
     [name |-> "add_task", args |-> [title |-> <<"a">>, reminder_at |-> Some("")]],
     [name |-> "list_tasks", args |-> [status |-> "done"]]}
    \cup {[name |-> n, args |-> [task_id |-> a]] :
            n \in {"complete_task", "delete_task", "update_task"}, a \in OddIds}

C12_NeverRaises ==
    (~Idle /\ call.tool \in ToolNames /\ WellKeyed(call.tool, call.args)) =>
        result.kind # "raise"

(***************************************************************************)
(* C13. Every row of the table has a non-empty title in every state the    *)
(* chat path reaches: add_task with an empty title creates no row and      *)
(* answers with an {error: ...} payload.                                   *)
(***************************************************************************)
ErrorPayload(ret) == ret.kind = "dict" /\ "error" \in DOMAIN ret.payload

\* what the language model is told about the tool call just executed
LastResult == context[Len(context)].parts[1].function_response.response.result

C13_TitleNonEmpty ==
    /\ \A i \in DOMAIN tasks : tasks[i].title # <<>>
    /\ (/\ pc = "send"
        /\ executed # <<>>
        /\ pending.name = "add_task"
        /\ pending.args.title = <<>>) => ErrorPayload(LastResult)

(***************************************************************************)
(* C14. Within one chat turn every function call the language model makes  *)
(* is passed to execute_tool exactly once, one at a time and in the order  *)
(* made, each before the model is asked again; and the list of names chat  *)
(* returns is the sequence of names passed to execute_tool, unknown names  *)
(* included.                                                               *)
(***************************************************************************)
Names(calls) == [k \in 1..Len(calls) |-> calls[k].name]

C14_SequentialOnce ==
    /\ pc \in {"send", "loop", "done"} => tool_calls_made = executed
    /\ pc = "execute" => tool_calls_made = Append(executed, pending.name)
    /\ pc = "send" => executed = Names(proposed)
    /\ (pc = "done" /\ returned.kind = "ok") =>
        /\ returned.tools = executed
        /\ executed = Names(proposed)

(***************************************************************************)
(* C15. Every chat turn ends: the number of tool calls of one turn has a   *)
(* fixed maximum, and a turn in which the language model answers every     *)
(* message with another function call is ended by chat itself after at     *)
(* most that many executions.  The maximum is taken to be the 10           *)
(* iterations the design names; chat keeps no count at all, so the same    *)
(* turn passes any other maximum in the same way.                          *)
(***************************************************************************)
C15_TurnBounded == Len(executed) <= 10

(***************************************************************************)
(* C16. When the language model fails during a chat turn (send_message     *)
(* raises, or gives a response without a candidate), chat returns a text   *)
(* with an empty list of tool names and raises nothing.                    *)
(***************************************************************************)
ModelFailed == response.kind \in {"raise", "blocked"}

C16_UpstreamFailureReported ==
    (pc = "done" /\ ModelFailed) =>
        /\ returned.kind = "ok"
        /\ returned.tools = <<>>

(***************************************************************************)
(* C17. chat keeps nothing from one call to the next: the list of tool     *)
(* names a call returns holds the tools run during that call and no other, *)
(* and what the language model is given starts with the history and the    *)
(* message passed to that call, followed only by the exchange of that      *)
(* call.  A later call depends on an earlier one through the task table    *)
(* alone.                                                                  *)
(***************************************************************************)
\* the model's input begins with the converted history and the message
StartsFromArguments ==
    LET h == Len(turn.history)
    IN  /\ Len(context) >= h + 1
        /\ SubSeq(context, 1, h) = gemini_history(turn.history)
        /\ context[h + 1] = UserContent(turn.message)

\* and holds nothing but this call's exchange: one answer and one function
\* response for each tool run
OnlyThisExchange ==
    LET h == Len(turn.history)
    IN  /\ pc = "send" => Len(context) = h + 1 + 2 * Len(executed)
        /\ pc \in {"loop", "execute"} => Len(context) = h + 2 + 2 * Len(executed)
        /\ pc = "done" => Len(context) <= h + 2 + 2 * Len(executed)

C17_NoStateAcrossTurns ==
    pc # "idle" =>
        /\ Len(tool_calls_made) <= Len(executed) + 1
        /\ \A k \in 1..Len(executed) : tool_calls_made[k] = executed[k]
        /\ (pc = "done" /\ returned.kind = "ok") => returned.tools = executed
        /\ StartsFromArguments
        /\ OnlyThisExchange

\* a later call that ran list_tasks alone has returned just that name,
\* although an earlier call had added a row
C17_Witness ==
    /\ pc = "done"
    /\ returned.kind = "ok"
    /\ returned.tools = <<"list_tasks">>
    /\ DOMAIN tasks # {}
    /\ turn.history # <<>>

(***************************************************************************)
(* C18. The schema declared to the language model matches what the         *)
(* executor accepts: for each of the five tools the parameter names (with  *)
(* their types), the required parameters and the enum domains of           *)
(* GEMINI_TOOLS are those of TOOL_DEFINITIONS, and the parameter names and *)
(* required parameters are those of the executor's method, which binds     *)
(* every argument mapping the schemas allow.                               *)
(***************************************************************************)
ParameterNames(schema) == {p[1] : p \in schema.properties}

C18_SchemasMatch ==
    \A name \in ToolNames :
        /\ GEMINI_TOOLS[name].properties = TOOL_DEFINITIONS[name].properties
        /\ GEMINI_TOOLS[name].required = TOOL_DEFINITIONS[name].required
        /\ GEMINI_TOOLS[name].enum = TOOL_DEFINITIONS[name].enum
        /\ ParameterNames(GEMINI_TOOLS[name]) = Signature[name].parameters
        /\ GEMINI_TOOLS[name].required = Signature[name].required
        /\ \A c \in AllCalls \cup OddCalls :
            (/\ c.name = name
             /\ GEMINI_TOOLS[name].required \subseteq DOMAIN c.args
             /\ DOMAIN c.args \subseteq ParameterNames(TOOL_DEFINITIONS[name]))
                => \A o \in execute_tool(tasks, next_id, AgentUser, name, c.args, now) :
                        o.ret # Raise("TypeError")

(***************************************************************************)
(* C19. No tool call leaves the table half changed: every execute_tool     *)
(* call adds, changes or removes at most one row, and a call that returns  *)
(* an {error: ...} payload or raises leaves every row, and the set of      *)
(* rows, exactly as it found them.                                         *)
(***************************************************************************)
\* the rows that T1 and T2 do not share
ChangedRows(T1, T2) ==
    {i \in DOMAIN T1 \cup DOMAIN T2 :
        \/ i \notin DOMAIN T1
        \/ i \notin DOMAIN T2
        \/ T1[i] # T2[i]}

Failed(ret) == ret.kind = "raise" \/ ErrorPayload(ret)

UnknownCalls == {[name |-> n, args |-> [task_id |-> IntArg(1)]] : n \in UnknownNames}

C19_NoPartialMutation ==
    /\ ~Idle =>
        /\ Cardinality(ChangedRows(before, tasks)) <= 1
        /\ Failed(result) => tasks = before
    /\ Idle =>
        \A u \in Users, c \in AllCalls \cup OddCalls \cup UnknownCalls :
            \A o \in execute_tool(tasks, next_id, u, c.name, c.args, now) :
                /\ Cardinality(ChangedRows(tasks, o.tasks)) <= 1
                /\ Failed(o.ret) => (o.tasks = tasks /\ o.next_id = next_id)

\* a call on a table of two rows, one of them completed, has raised and
\* the table is as it was
C19_Witness ==
    /\ call.tool = "complete_task"
    /\ call.args.task_id = StrArg(<<"x">>)
    /\ result.kind = "raise"
    /\ Cardinality(DOMAIN before) = 2
    /\ \E i \in DOMAIN before : before[i].completed
    /\ tasks = before

(***************************************************************************)
(* C20. Every mutating REST endpoint (create_task, update_task,            *)
(* delete_task, toggle_task_complete) publishes exactly one event, for the *)
(* task it changed, once the table has been changed; a request answered    *)
(* with 404 changes nothing and publishes nothing.                         *)
(***************************************************************************)
MutatingRoutes == {"create_task", "update_task", "delete_task", "toggle_task_complete"}

\* the task a request is about: the new row of create_task, else task_id
Affected ==
    IF call.tool = "create_task"
    THEN CHOOSE i \in DOMAIN tasks : i \notin DOMAIN before
    ELSE call.args.task_id

C20_OneEventPerMutation ==
    (~Idle /\ result.kind = "http" /\ call.tool \in MutatingRoutes) =>
        IF result.payload.status = 404
        THEN /\ tasks = before
             /\ events = <<>>
        ELSE /\ Len(events) = 1
             /\ events[1].task_id = Affected
             /\ events[1].user_id = call.user

(***************************************************************************)
(* Claims about the console application's storage                          *)
(***************************************************************************)
\* a successful call of the storage method has just returned
Returned(method) == op.method = method /\ out.kind # "raise"

\* a call of the storage method has just raised the error
Raised(method, error) == op.method = method /\ out = Raise(error)

\* C21: the ids that add returns are 1, 2, 3, ... in the order of the
\* successful adds: the n-th successful add returns n, which is greater than
\* every id returned before it, whether that task is still stored or has been
\* deleted; an add that raises and the other methods leave the next id alone.
C21_IdsNeverReused ==
    /\ issued = 1..(_next_id - 1)
    /\ DOMAIN _tasks \subseteq issued
    /\ \A i \in DOMAIN _tasks : _tasks[i].id = i
    /\ Returned("add") =>
            /\ out.payload.id = Cardinality(issued)
            /\ \A j \in issued \ {out.payload.id} : j < out.payload.id
            /\ out.payload.id \notin DOMAIN prev.tasks
            /\ _next_id = prev.next_id + 1
    /\ (op # NoOp /\ ~Returned("add")) => _next_id = prev.next_id

\* the second add returns 2 although task 1 has been deleted
C21_Witness ==
    /\ Returned("add")
    /\ out.payload.id = 2
    /\ DOMAIN _tasks = {2}
    /\ 1 \in issued

\* C22: toggle_complete flips completed and nothing else: the title, the
\* description and the id of the task, the other tasks and the next id stay,
\* and a second call on the same task brings the storage back.
C22_ToggleInvolution ==
    /\ Returned("toggle_complete") =>
            LET id == op.args.task_id
            IN  /\ id \in DOMAIN prev.tasks
                /\ _tasks = [prev.tasks EXCEPT
                                 ![id].completed = ~prev.tasks[id].completed]
                /\ out = Object(_tasks[id])
                /\ _next_id = prev.next_id
                /\ toggle_complete(_tasks, _next_id, id).tasks = prev.tasks
    /\ \A id \in DOMAIN _tasks :
            LET once == toggle_complete(_tasks, _next_id, id)
                twice == toggle_complete(once.tasks, once.next_id, id)
            IN  /\ once.ret.kind = "task"
                /\ once.ret.payload.completed = ~_tasks[id].completed
                /\ twice = Outcome(_tasks, _next_id, Object(_tasks[id]))

\* a completed task has been toggled back to pending
C22_Witness ==
    /\ Returned("toggle_complete")
    /\ prev.tasks[op.args.task_id].completed
    /\ ~_tasks[op.args.task_id].completed
    /\ Cardinality(DOMAIN _tasks) = 2

\* the methods that look a task up by its id
Lookups == {"get", "update", "delete", "toggle_complete"}

\* C23: get, update, delete and toggle_complete raise TaskNotFoundError for
\* an id that is not stored, whether it was never given out or its task has
\* been deleted, and leave the stored tasks and the next id as they were.
C23_NotFound ==
    /\ (op.method \in Lookups /\ op.args.task_id \notin DOMAIN prev.tasks) =>
            /\ out = Raise("TaskNotFoundError")
            /\ _tasks = prev.tasks
            /\ _next_id = prev.next_id
    /\ \A id \in StoreIds \ DOMAIN _tasks :
            LET missing == Outcome(_tasks, _next_id, Raise("TaskNotFoundError"))
            IN  /\ get(_tasks, _next_id, id) = missing
                /\ delete(_tasks, _next_id, id) = missing
                /\ toggle_complete(_tasks, _next_id, id) = missing
                /\ \A u \in StoreUpdates :
                        update(_tasks, _next_id, id, u.title, u.description) = missing

\* delete has raised for the id of a task that was deleted before
C23_Witness ==
    /\ Raised("delete", "TaskNotFoundError")
    /\ op.args.task_id \in issued
    /\ _tasks # <<>>

\* the string is empty or holds whitespace only
WhitespaceOnly(s) == \A i \in 1..Len(s) : IsSpace(s[i])

\* C24: add with an empty or whitespace-only title raises EmptyTitleError,
\* stores no task and does not advance the next id, so that the next
\* successful add returns the id the failed one would have returned.
C24_EmptyTitleRejected ==
    /\ (op.method = "add" /\ WhitespaceOnly(op.args.title)) =>
            /\ out = Raise("EmptyTitleError")
            /\ _tasks = prev.tasks
            /\ _next_id = prev.next_id
            /\ add(_tasks, _next_id, <<"a">>, <<>>, now).ret.payload.id = prev.next_id
    /\ \A title \in {t \in StoreTitles : WhitespaceOnly(t)},
          description \in StoreDescriptions \cup {LongDescription} :
            add(_tasks, _next_id, title, description, now)
                = Outcome(_tasks, _next_id, Raise("EmptyTitleError"))

\* add has raised for a title of a space and a tab
C24_Witness ==
    /\ Raised("add", "EmptyTitleError")
    /\ op.args.title = <<" ", "\t">>
    /\ _tasks # <<>>

\* the tasks of the list l
Listed(l) == {l[p] : p \in 1..Len(l)}

\* delete of the stored task id has turned the storage (T, n) into o
DeletedOnly(T, n, id, o) ==
    /\ o.ret = Bool(TRUE)
    /\ o.tasks = [i \in DOMAIN T \ {id} |-> T[i]]
    /\ o.next_id = n
    /\ Listed(get_all(o.tasks, o.next_id).ret.payload) = {T[i] : i \in DOMAIN T \ {id}}

\* C25: delete of a stored task returns True and removes that task and no
\* other: get_all then lists every other task as it was, and not the
\* deleted one.
C25_DeleteExactlyOne ==
    /\ (op.method = "delete" /\ op.args.task_id \in DOMAIN prev.tasks) =>
            DeletedOnly(prev.tasks, prev.next_id, op.args.task_id,
                        Outcome(_tasks, _next_id, out))
    /\ \A id \in DOMAIN _tasks :
            DeletedOnly(_tasks, _next_id, id, delete(_tasks, _next_id, id))

\* the first of two tasks has been deleted
C25_Witness ==
    /\ Returned("delete")
    /\ op.args.task_id = 1
    /\ DOMAIN prev.tasks = {1, 2}
    /\ DOMAIN _tasks = {2}

\* update of the stored task id with title and description has turned the
\* storage (T, n) into o
UpdatedOnly(T, n, id, title, description, o) ==
    /\ o.next_id = n
    /\ DOMAIN o.tasks = DOMAIN T
    /\ \A i \in DOMAIN T \ {id} : o.tasks[i] = T[i]
    /\ o.tasks[id].id = T[id].id
    /\ o.tasks[id].completed = T[id].completed
    /\ o.tasks[id].created_at = T[id].created_at
    /\ o.tasks[id].title = (IF title.some THEN strip(title.v) ELSE T[id].title)
    /\ o.tasks[id].description =
            (IF description.some THEN strip(description.v) ELSE T[id].description)
    /\ o.ret = Object(o.tasks[id])

\* C26: a successful update changes the fields it is given and no other:
\* without a description the description stays, without a title the title
\* stays, and the id and the completion of the task, the other tasks and the
\* next id stay in every case.
C26_UpdateOnlySupplied ==
    /\ Returned("update") =>
            UpdatedOnly(prev.tasks, prev.next_id, op.args.task_id, op.args.title,
                        op.args.description, Outcome(_tasks, _next_id, out))
    /\ \A id \in DOMAIN _tasks, u \in StoreUpdates :
            LET o == update(_tasks, _next_id, id, u.title, u.description)
            IN  o.ret.kind # "raise" =>
                    UpdatedOnly(_tasks, _next_id, id, u.title, u.description, o)

\* the title of a completed task with a description has been updated alone
C26_Witness ==
    /\ Returned("update")
    /\ op.args.title.some
    /\ ~op.args.description.some
    /\ prev.tasks[op.args.task_id].title # <<"c">>
    /\ _tasks[op.args.task_id].title = <<"c">>
    /\ _tasks[op.args.task_id].description = <<"d">>
    /\ _tasks[op.args.task_id].completed

\* the list l holds the tasks of T, each once, by ascending id
AscendingList(l, T) ==
    /\ Len(l) = Cardinality(DOMAIN T)
    /\ \A i \in DOMAIN T : \E p \in 1..Len(l) : l[p] = T[i]
    /\ \A p \in 1..Len(l) : l[p].id \in DOMAIN T /\ l[p] = T[l[p].id]
    /\ \A p, q \in 1..Len(l) : p < q => l[p].id < l[q].id
    /\ (T = <<>>) => (l = <<>>)

\* C27: get_all returns the stored tasks, each once, by strictly ascending
\* id, and the empty list when nothing is stored; it changes nothing.
C27_GetAllSorted ==
    /\ Returned("get_all") =>
            /\ out.kind = "list"
            /\ AscendingList(out.payload, prev.tasks)
            /\ _tasks = prev.tasks
            /\ _next_id = prev.next_id
    /\ LET o == get_all(_tasks, _next_id)
       IN  /\ o.ret.kind = "list"
           /\ AscendingList(o.ret.payload, _tasks)
           /\ o.tasks = _tasks
           /\ o.next_id = _next_id

\* get_all has listed two tasks
C27_Witness ==
    /\ Returned("get_all")
    /\ Len(out.payload) = 2
    /\ out.payload[1].id = 1
    /\ out.payload[2].id = 2

\* c is the count of the tasks of T
Counted(c, T) ==
    /\ c[1] = Cardinality(DOMAIN T)
    /\ c[2] = Cardinality({i \in DOMAIN T : T[i].completed})
    /\ c[3] = Cardinality({i \in DOMAIN T : ~T[i].completed})
    /\ c[1] = c[2] + c[3]
    /\ (T = <<>>) => (c = <<0, 0, 0>>)

\* C28: count returns the number of stored tasks, of completed ones and of
\* pending ones; the first is the sum of the other two, and all three are 0
\* when nothing is stored.
C28_CountAddsUp ==
    /\ Returned("count") =>
            /\ out.kind = "tuple"
            /\ Counted(out.payload, prev.tasks)
            /\ _tasks = prev.tasks
            /\ _next_id = prev.next_id
    /\ LET o == count(_tasks, _next_id)
       IN  /\ o.ret.kind = "tuple"
           /\ Counted(o.ret.payload, _tasks)

\* count has returned for a completed and a pending task
C28_Witness ==
    /\ Returned("count")
    /\ out.payload = <<2, 1, 1>>

(***************************************************************************)
(* Claims about the executor, continued                                    *)
(***************************************************************************)
\* the tool call in hand has succeeded with the status
Succeeded(tool, status) ==
    /\ call.tool = tool
    /\ result.kind = "dict"
    /\ "status" \in DOMAIN result.payload
    /\ result.payload.status = status

\* C29: completion is one-way for the five tools: a row is pending when
\* add_task creates it, only a successful complete_task on it makes it
\* completed, and a completed row stays completed under every later tool
\* call for as long as it is in the table.
C29_CompletionOneWay ==
    ~Idle =>
        /\ \A i \in DOMAIN tasks \ DOMAIN before :
                Succeeded("add_task", "created") /\ ~tasks[i].completed
        /\ \A i \in DOMAIN tasks \cap DOMAIN before :
                /\ before[i].completed => tasks[i].completed
                /\ (~before[i].completed /\ tasks[i].completed) =>
                        /\ Succeeded("complete_task", "completed")
                        /\ result.payload.task_id = i

\* a row completed earlier has been updated and is still completed
C29_Witness ==
    /\ Succeeded("update_task", "updated")
    /\ before[result.payload.task_id].completed
    /\ tasks[result.payload.task_id].completed
    /\ tasks[result.payload.task_id].updated_at > before[result.payload.task_id].updated_at

\* add_task called with every priority string in use and with none
PriorityArgs ==
    {[title |-> <<"a">>]}
    \cup {[title |-> <<"a">>, priority |-> StrArg(p)] :
            p \in Priorities \cup {"High", "LOW", "Medium"}}

AddPrioritised ==
    /\ call = NoCall
    /\ next_id <= MaxId
    /\ \E u \in Users, a \in PriorityArgs : Execute(u, "add_task", a)

NextPriority ==
    \/ AddPrioritised
    \/ Return

SpecPriority == Init /\ [][NextPriority]_vars

PriorityNames == {"high", "medium", "low"}

\* add_task has been called with a priority string or with none
AddedWithString ==
    /\ call.tool = "add_task"
    /\ "title" \in DOMAIN call.args
    /\ ("priority" \in DOMAIN call.args) => call.args.priority.t = "str"

\* C30 as stated: add_task stores medium when the priority is omitted or is
\* a string that is none of high, medium and low, stores the priority when
\* it is one of the three, returns the stored priority, and does not fail.
C30_OutsideIsMedium ==
    (~Idle /\ AddedWithString) =>
        /\ Succeeded("add_task", "created")
        /\ LET row == tasks[result.payload.task_id]
           IN  /\ result.payload.priority = row.priority
               /\ ("priority" \notin DOMAIN call.args) => row.priority = "medium"
               /\ ("priority" \in DOMAIN call.args) =>
                       row.priority = (IF call.args.priority.s \in PriorityNames
                                       THEN call.args.priority.s
                                       ELSE "medium")

\* add_task with the priority string p, or with none, has stored the row
\* o.tasks[o.ret.payload.task_id] by the lower-cased priority
StoredByLowerCase(given, p, o) ==
    /\ o.ret.kind = "dict"
    /\ "status" \in DOMAIN o.ret.payload
    /\ o.ret.payload.status = "created"
    /\ LET row == o.tasks[o.ret.payload.task_id]
       IN  /\ o.ret.payload.priority = row.priority
           /\ row.priority \in PriorityNames
           /\ ~given => row.priority = "medium"
           /\ given => row.priority = (IF lower(p) \in {"high", "low"}
                                       THEN lower(p)
                                       ELSE "medium")

\* C30, amended: add_task compares the priority without regard to case: it
\* stores high or low when the lower-cased string is high or low and medium
\* for every other string and for an omitted priority, returns the stored
\* priority, and no priority string makes the call fail.
C30_PriorityByLowerCase ==
    (~Idle /\ AddedWithString) =>
        StoredByLowerCase("priority" \in DOMAIN call.args,
                          IF "priority" \in DOMAIN call.args
                          THEN call.args.priority.s ELSE "",
                          Outcome(tasks, next_id, result))

\* add_task with the priority HIGH has stored and returned high
C30_Witness ==
    /\ Succeeded("add_task", "created")
    /\ "priority" \in DOMAIN call.args
    /\ call.args.priority = StrArg("HIGH")
    /\ tasks[result.payload.task_id].priority = "high"
    /\ result.payload.priority = "high"

\* C31: complete_task and update_task leave the id, the user_id and the
\* created_at of every row as they were; a successful one, an update_task
\* without a field included, sets updated_at of its row to the time of the
\* call and of no other row, so that updated_at never decreases and is never
\* earlier than created_at.
C31_UpdatedAtRefreshed ==
    /\ \A i \in DOMAIN tasks : tasks[i].updated_at >= tasks[i].created_at
    /\ (~Idle /\ call.tool \in {"complete_task", "update_task"}) =>
            /\ DOMAIN tasks = DOMAIN before
            /\ \A i \in DOMAIN tasks :
                    /\ tasks[i].user_id = before[i].user_id
                    /\ tasks[i].created_at = before[i].created_at
                    /\ tasks[i].updated_at >= before[i].updated_at
            /\ (Succeeded("complete_task", "completed")
                    \/ Succeeded("update_task", "updated")) =>
                    /\ result.payload.task_id \in DOMAIN before
                    /\ tasks[result.payload.task_id].updated_at = now
                    /\ \A i \in DOMAIN tasks \ {result.payload.task_id} :
                            tasks[i].updated_at = before[i].updated_at
            /\ (result.kind = "dict" /\ "error" \in DOMAIN result.payload) =>
                    tasks = before

\* an update_task without a field has moved updated_at of a row made earlier
C31_Witness ==
    /\ Succeeded("update_task", "updated")
    /\ DOMAIN call.args = {"task_id"}
    /\ before[result.payload.task_id].updated_at = 0
    /\ tasks[result.payload.task_id].created_at = 0
    /\ tasks[result.payload.task_id].updated_at = 1

\* add_task called with dates that parse, with dates that do not, with the
\* empty string and with none, and list_tasks, by one user
DueDates == {"2026-01-01", "tomorrow", ""}
ReminderDates == {"2026-01-01T09:00:00Z", "2026-13-01"}
DateArgs ==
    {[title |-> <<"a">>]}
    \cup {[title |-> <<"a">>, due_date |-> Some(d)] : d \in DueDates}
    \cup {[title |-> <<"a">>, reminder_at |-> Some(r)] : r \in ReminderDates}
    \cup {[title |-> <<"a">>, due_date |-> Some(d), reminder_at |-> Some(r)] :
            d \in DueDates, r \in ReminderDates}

AddDated ==
    /\ call = NoCall
    /\ next_id <= MaxId
    /\ \E a \in DateArgs : Execute(AgentUser, "add_task", a)

ListDated ==
    /\ call = NoCall
    /\ \E a \in ListArgs : Execute(AgentUser, "list_tasks", a)

NextDates ==
    \/ AddDated
    \/ ListDated
    \/ Return

SpecDates == Init /\ [][NextDates]_vars

\* the date strings in use that datetime.fromisoformat accepts
ParsableDates == {"2026-01-01", "2026-01-01T09:00:00Z"}

DateKeys == {"due_date", "reminder_at"}

\* the key of the arguments holds a date string that parses
GivenAndParsed(arguments, key) ==
    /\ key \in DOMAIN arguments
    /\ arguments[key].some
    /\ arguments[key].v \in ParsableDates

\* C32: add_task with a due_date or reminder_at that does not parse creates
\* the task all the same, with that field absent, and returns status
\* created; the key is in the returned payload, and in the entries list_tasks
\* returns for the row later, exactly when the string was given and parsed.
C32_UnparsableDateAbsent ==
    /\ (~Idle /\ AddedWithString) =>
            /\ Succeeded("add_task", "created")
            /\ result.payload.task_id \in DOMAIN tasks \ DOMAIN before
            /\ \A key \in DateKeys :
                    LET row == tasks[result.payload.task_id]
                    IN  IF GivenAndParsed(call.args, key)
                        THEN /\ key \in DOMAIN result.payload
                             /\ row[key] = Some(result.payload[key])
                        ELSE /\ key \notin DOMAIN result.payload
                             /\ row[key] = None
    /\ (~Idle /\ call.tool = "list_tasks") =>
            /\ result.kind = "list"
            /\ \A k \in 1..Len(result.payload), key \in DateKeys :
                    LET entry == result.payload[k]
                    IN  IF tasks[entry.id][key].some
                        THEN /\ key \in DOMAIN entry
                             /\ entry[key] = tasks[entry.id][key].v
                        ELSE key \notin DOMAIN entry
    /\ ~Idle => \A i \in DOMAIN tasks \cap DOMAIN before :
                    \A key \in DateKeys : tasks[i][key] = before[i][key]

\* add_task has created a task from a due_date that does not parse and a
\* reminder_at that does
C32_Witness ==
    /\ Succeeded("add_task", "created")
    /\ DateKeys \subseteq DOMAIN call.args
    /\ call.args.due_date = Some("tomorrow")
    /\ GivenAndParsed(call.args, "reminder_at")
    /\ DOMAIN result.payload \cap DateKeys = {"reminder_at"}

(***************************************************************************)
(* Two runs of the executors side by side: user A makes the same tool      *)
(* calls in both, user B makes calls in the one or in the other.           *)
(***************************************************************************)
\* the tool calls of the two users
TwinCalls ==
    {[name |-> "add_task", args |-> [title |-> <<"a">>]],
     [name |-> "list_tasks", args |-> <<>>]}
    \cup {[name |-> n, args |-> a] :
            n \in {"complete_task", "delete_task", "update_task"}, a \in IdArgs}

\* the second run has room for the call
TwinRoom(T, c) == c.name = "add_task" => T.next_id <= MaxId

\* user A makes one tool call in both runs
SameCall ==
    /\ call = NoCall
    /\ \E c \in TwinCalls :
        /\ c.name = "add_task" => next_id <= MaxId
        /\ TwinRoom(twin, c)
        /\ Run("A", c.name, c.args)
        /\ \E o \in execute_tool(twin.tasks, twin.next_id, "A", c.name, c.args, now) :
            /\ twin' = [tasks |-> o.tasks, next_id |-> o.next_id]
            /\ twin_result' = o.ret

\* user B makes one tool call in the first run
OtherInFirst ==
    /\ call = NoCall
    /\ \E c \in TwinCalls :
        /\ c.name = "add_task" => next_id <= MaxId
        /\ Execute("B", c.name, c.args)

\* user B makes one tool call in the second run and takes what it returns
OtherInSecond ==
    /\ call = NoCall
    /\ \E c \in TwinCalls :
        /\ TwinRoom(twin, c)
        /\ \E o \in execute_tool(twin.tasks, twin.next_id, "B", c.name, c.args, now) :
            twin' = [tasks |-> o.tasks, next_id |-> o.next_id]
        /\ UNCHANGED <<tasks, next_id, now, callvars, chatvars, events, storevars,
                       twin_result>>

NextTwin ==
    \/ SameCall
    \/ OtherInFirst
    \/ OtherInSecond
    \/ Return

SpecTwin == Init /\ [][NextTwin]_vars

\* C33: in two runs in which user A makes the same tool calls and which
\* differ in the calls of user B only, every call of A returns the same
\* payload in both, the task ids in it included.
C33_Noninterference ==
    (~Idle /\ call.user = "A") => result = twin_result

(***************************************************************************)
(* Claims about the storage's validation                                   *)
(***************************************************************************)
ValidationErrors == {"EmptyTitleError", "TitleTooLongError", "DescriptionTooLongError"}

\* C34: update is all or nothing: when it raises EmptyTitleError,
\* TitleTooLongError or DescriptionTooLongError, the title and the
\* description of the task are what they were before the call.
C34_UpdateAllOrNothing ==
    (op.method = "update" /\ out.kind = "raise" /\ out.payload \in ValidationErrors) =>
        /\ _tasks[op.args.task_id].title = prev.tasks[op.args.task_id].title
        /\ _tasks[op.args.task_id].description = prev.tasks[op.args.task_id].description

\* add and update called with titles and descriptions at and over the limits
PaddedTitle == <<" ">> \o [i \in 1..MAX_TITLE_LENGTH |-> "a"]
PaddedDescription == [i \in 1..MAX_DESCRIPTION_LENGTH |-> "d"] \o <<"\n">>
LimitTitles == {<<"a">>, <<" ">>, PaddedTitle, LongTitle}
LimitDescriptions == {<<>>, PaddedDescription, LongDescription}

LimitAdd ==
    /\ _next_id <= MaxId
    /\ \E title \in LimitTitles, description \in LimitDescriptions :
        Method("add", [title |-> title, description |-> description],
               add(_tasks, _next_id, title, description, now))

LimitUpdate ==
    /\ op = NoOp
    /\ \E task_id \in DOMAIN _tasks,
          title \in {None} \cup {Some(t) : t \in LimitTitles},
          description \in {None} \cup {Some(d) : d \in LimitDescriptions} :
        Method("update",
               [task_id |-> task_id, title |-> title, description |-> description],
               update(_tasks, _next_id, task_id, title, description))

NextLimits ==
    \/ LimitAdd
    \/ LimitUpdate
    \/ Taken

SpecLimits == Init /\ [][NextLimits]_vars

\* the string neither begins nor ends with whitespace
Trimmed(s) == s = <<>> \/ (~IsSpace(s[1]) /\ ~IsSpace(s[Len(s)]))

\* the string without the whitespace around it
Inner(s) ==
    LET inside == {i \in 1..Len(s) : ~IsSpace(s[i])}
    IN  IF inside = {} THEN <<>>
        ELSE SubSeq(s, CHOOSE i \in inside : \A j \in inside : i <= j,
                       CHOOSE i \in inside : \A j \in inside : i >= j)

\* the validation error that matches the title and description given, None
\* standing for an argument left out; "" when both are in order
Violation(title, description) ==
    IF title.some /\ Inner(title.v) = <<>> THEN "EmptyTitleError"
    ELSE IF title.some /\ Len(Inner(title.v)) > MAX_TITLE_LENGTH THEN "TitleTooLongError"
    ELSE IF description.some /\ Len(Inner(description.v)) > MAX_DESCRIPTION_LENGTH
    THEN "DescriptionTooLongError"
    ELSE ""

\* C35: after any successful and failed adds and updates every stored task
\* has a title of 1 to 100 characters with no whitespace around it and a
\* description of at most 500 characters; an add or update with a value
\* that breaks this raises the matching validation error and does not store
\* the value.
C35_StoredValuesValid ==
    /\ \A i \in DOMAIN _tasks :
            /\ Len(_tasks[i].title) \in 1..MAX_TITLE_LENGTH
            /\ Trimmed(_tasks[i].title)
            /\ Len(_tasks[i].description) <= MAX_DESCRIPTION_LENGTH
    /\ op.method = "add" =>
            LET error == Violation(Some(op.args.title), Some(op.args.description))
            IN  IF error = "" THEN Returned("add")
                ELSE Raised("add", error) /\ _tasks = prev.tasks
    /\ (op.method = "update" /\ op.args.task_id \in DOMAIN prev.tasks) =>
            LET error == Violation(op.args.title, op.args.description)
                id == op.args.task_id
            IN  IF error = "" THEN Returned("update")
                ELSE /\ Raised("update", error)
                     /\ _tasks[id].description = prev.tasks[id].description
                     /\ error # "DescriptionTooLongError" => _tasks = prev.tasks

\* update has raised for a title of 101 characters on a task whose title
\* has 100
C35_Witness ==
    /\ Raised("update", "TitleTooLongError")
    /\ Len(_tasks[op.args.task_id].title) = MAX_TITLE_LENGTH
    /\ Len(_tasks[op.args.task_id].description) = MAX_DESCRIPTION_LENGTH
====
